---------------------------- MODULE Spec2Model ----------------------------
(***************************************************************************)
(* A model of neowall's compositor abstraction layer:                      *)
(*   - protocol probing and compositor classification                      *)
(*     (src/src/compositor/compositor_registry.c, detect_protocols,        *)
(*     detect_compositor_type, compositor_detect),                         *)
(*   - the bounded backend registry (compositor_backend_register),         *)
(*   - backend selection (select_backend, compositor_backend_init,         *)
(*     compositor_backend_cleanup).                                        *)
(*                                                                         *)
(* C strings that the code searches with strstr are sequences of           *)
(* one-character strings; C strings that the code only compares with       *)
(* strcmp (backend names) are TLA+ strings.                                *)
(***************************************************************************)
EXTENDS Integers, Sequences, FiniteSets, TLC

VARIABLES
    backend_registry,   \* static backend_registry[MAX_BACKENDS]
    backend_count,      \* static size_t backend_count
    backend,            \* the struct compositor_backend * the caller holds
    phase,              \* where the owning process is in its life
    sel,                \* record of the last compositor_backend_init call
    det,                \* record of the last compositor_detect call
    reg,                \* record of the last compositor_backend_register call
    live,               \* backend data returned by an init, not yet cleaned up
    cln,                \* record of the last compositor_backend_cleanup call
    capq,               \* record of the last compositor_backend_get_capabilities call
    x11,                \* the X11 backend's x11_backend_data_t, once allocated
    surfaces,           \* the struct compositor_surface objects ever allocated
    windows,            \* the X server's windows, by window id
    x11op,              \* record of the last X11 backend operation
    current_surface,    \* static EGLSurface current_surface (renderer.c)
    current_width,      \* static int32_t current_width
    current_height,     \* static int32_t current_height
    gl,                 \* EGL and OpenGL ES: surface made current, viewport, textures
    frameop,            \* record of the last frame function call
    context,            \* the renderer_context_t
    textures,           \* the renderer_texture_t objects ever allocated
    texop,              \* record of the last texture function call
    trop                \* record of the last transition registry call

registry_vars == <<backend_registry, backend_count, backend, phase, sel, det,
                   reg, live, cln, capq>>

x11_vars == <<x11, surfaces, windows, x11op>>

frame_vars == <<current_surface, current_width, current_height, gl, frameop>>

texture_vars == <<context, textures, texop>>

transition_vars == <<trop>>

renderer_vars == <<frame_vars, texture_vars, transition_vars>>

vars == <<backend_registry, backend_count, backend, phase, sel, det,
          reg, live, cln, capq, x11, surfaces, windows, x11op,
          current_surface, current_width, current_height, gl, frameop,
          context, textures, texop, trop>>

(***************************************************************************)
(* Pointers and strings                                                    *)
(***************************************************************************)

\* A null pointer (names, ops tables, backend data, backend structures).
NULL == "NULL"

\* A null char* where the pointee, when present, is a character sequence.
NULLSTR == <<"NULL">>

\* strstr(haystack, needle) != NULL, for non-null arguments.
strstr(haystack, needle) ==
    \E i \in 1..(Len(haystack) - Len(needle) + 1) :
        SubSeq(haystack, i, i + Len(needle) - 1) = needle

\* The idiom  (v && strstr(v, needle))  of detect_compositor_type.
Contains(v, needle) == v # NULLSTR /\ strstr(v, needle)

s_Hyprland == <<"H","y","p","r","l","a","n","d">>
s_hyprland == <<"h","y","p","r","l","a","n","d">>
s_sway     == <<"s","w","a","y">>
s_river    == <<"r","i","v","e","r">>
s_wayfire  == <<"w","a","y","f","i","r","e">>
s_KDE      == <<"K","D","E">>
s_plasma   == <<"p","l","a","s","m","a">>
s_GNOME    == <<"G","N","O","M","E">>
s_gnome    == <<"g","n","o","m","e">>
s_mutter   == <<"m","u","t","t","e","r">>
s_weston   == <<"w","e","s","t","o","n">>

s_unknown  == <<"u","n","k","n","o","w","n">>

(***************************************************************************)
(* Protocol detection                                                      *)
(***************************************************************************)

\* protocol_state_t state = {0}  (compositor_name is never written or read)
protocol_state_zero ==
    [has_layer_shell |-> FALSE, has_kde_shell |-> FALSE,
     has_gtk_shell |-> FALSE, has_viewporter |-> FALSE]

\* One wl_registry "global" event delivered to the listener.
registry_handle_global(state, interface) ==
    IF interface = "zwlr_layer_shell_v1"
      THEN [state EXCEPT !.has_layer_shell = TRUE]
    ELSE IF interface = "org_kde_plasma_shell"
      THEN [state EXCEPT !.has_kde_shell = TRUE]
    ELSE IF interface = "gtk_shell1"
      THEN [state EXCEPT !.has_gtk_shell = TRUE]
    ELSE IF interface = "wp_viewporter"
      THEN [state EXCEPT !.has_viewporter = TRUE]
    ELSE state

\* Mutation of registry_handle_global_remove: a removed watched global
\* clears its flag.
registry_handle_global_remove_clears(state, interface) ==
    IF interface = "zwlr_layer_shell_v1"
      THEN [state EXCEPT !.has_layer_shell = FALSE]
    ELSE IF interface = "org_kde_plasma_shell"
      THEN [state EXCEPT !.has_kde_shell = FALSE]
    ELSE state

\* One wl_registry "global_remove" event delivered to the listener, for the
\* global that had advertised interface: nothing to do.
registry_handle_global_remove(state, interface) == state

\* The "global" events of a round trip: the listener runs once for every
\* advertised global.
RECURSIVE dispatch_globals(_, _)
dispatch_globals(state, globals) ==
    IF globals = {} THEN state
    ELSE LET g == CHOOSE x \in globals : TRUE
         IN  dispatch_globals(registry_handle_global(state, g), globals \ {g})

\* The "global_remove" events of a round trip.
RECURSIVE dispatch_global_removes(_, _)
dispatch_global_removes(state, removed) ==
    IF removed = {} THEN state
    ELSE LET g == CHOOSE x \in removed : TRUE
         IN  dispatch_global_removes(registry_handle_global_remove(state, g),
                                     removed \ {g})

\* wl_display_roundtrip with the registry listener installed: the events of
\* the round trip are dispatched to the two handlers.
wl_display_roundtrip(state, display) ==
    dispatch_global_removes(dispatch_globals(state, display.globals),
                            display.removed)

\* A display is [has_registry, globals, removed]: whether
\* wl_display_get_registry yields a registry, the interfaces the server
\* advertises during the round trip, and those of them whose global it
\* removes again during the round trip.
detect_protocols(display) ==
    IF ~display.has_registry
      THEN protocol_state_zero
      ELSE wl_display_roundtrip(protocol_state_zero, display)

(***************************************************************************)
(* Compositor type detection                                               *)
(***************************************************************************)

\* getenv: the process environment is a function from names to values.
getenv(env, name) == env[name]

\* The three hints read at the top of detect_compositor_type.
desktop_of(env)         == getenv(env, "XDG_CURRENT_DESKTOP")
session_of(env)         == getenv(env, "XDG_SESSION_DESKTOP")
wayland_display_of(env) == getenv(env, "WAYLAND_DISPLAY")

\* The condition of each detection block, in the order of the code.
hyprland_detected(env) ==
    \/ Contains(desktop_of(env), s_Hyprland)
    \/ Contains(session_of(env), s_Hyprland)
    \/ Contains(wayland_display_of(env), s_hyprland)

\* Mutation of sway_detected: COMPOSITOR_VERSION is read instead of SWAYSOCK.
sway_detected_wrong_variable(env) ==
    \/ Contains(desktop_of(env), s_sway)
    \/ Contains(session_of(env), s_sway)
    \/ getenv(env, "COMPOSITOR_VERSION") # NULLSTR

sway_detected(env) ==
    \/ Contains(desktop_of(env), s_sway)
    \/ Contains(session_of(env), s_sway)
    \/ getenv(env, "SWAYSOCK") # NULLSTR

river_detected(env) ==
    \/ Contains(desktop_of(env), s_river)
    \/ Contains(session_of(env), s_river)

\* Mutation of wayfire_detected: the session name is not consulted.
wayfire_detected_desktop_only(env) ==
    Contains(desktop_of(env), s_wayfire)

wayfire_detected(env) ==
    \/ Contains(desktop_of(env), s_wayfire)
    \/ Contains(session_of(env), s_wayfire)

kde_plasma_detected(proto, env) ==
    \/ Contains(desktop_of(env), s_KDE)
    \/ Contains(session_of(env), s_plasma)
    \/ proto.has_kde_shell

gnome_shell_detected(proto, env) ==
    \/ Contains(desktop_of(env), s_GNOME)
    \/ Contains(session_of(env), s_gnome)
    \/ proto.has_gtk_shell

mutter_detected(env) == Contains(session_of(env), s_mutter)

weston_detected(env) ==
    \/ Contains(desktop_of(env), s_weston)
    \/ Contains(session_of(env), s_weston)

\* Mutation of generic_detected: the viewporter flag is tested.
generic_detected_viewporter(proto) == proto.has_viewporter

generic_detected(proto) == proto.has_layer_shell

detect_compositor_type(proto, env) ==
    IF hyprland_detected(env)               THEN "COMPOSITOR_TYPE_HYPRLAND"
    ELSE IF sway_detected(env)              THEN "COMPOSITOR_TYPE_SWAY"
    ELSE IF river_detected(env)             THEN "COMPOSITOR_TYPE_RIVER"
    ELSE IF wayfire_detected(env)           THEN "COMPOSITOR_TYPE_WAYFIRE"
    ELSE IF kde_plasma_detected(proto, env) THEN "COMPOSITOR_TYPE_KDE_PLASMA"
    ELSE IF gnome_shell_detected(proto, env) THEN "COMPOSITOR_TYPE_GNOME_SHELL"
    ELSE IF mutter_detected(env)            THEN "COMPOSITOR_TYPE_MUTTER"
    ELSE IF weston_detected(env)            THEN "COMPOSITOR_TYPE_WESTON"
    ELSE IF generic_detected(proto)         THEN "COMPOSITOR_TYPE_GENERIC"
    ELSE "COMPOSITOR_TYPE_UNKNOWN"

compositor_type_to_string(type) ==
    CASE type = "COMPOSITOR_TYPE_HYPRLAND"    -> "Hyprland"
      [] type = "COMPOSITOR_TYPE_SWAY"        -> "Sway"
      [] type = "COMPOSITOR_TYPE_RIVER"       -> "River"
      [] type = "COMPOSITOR_TYPE_WAYFIRE"     -> "Wayfire"
      [] type = "COMPOSITOR_TYPE_KDE_PLASMA"  -> "KDE Plasma"
      [] type = "COMPOSITOR_TYPE_GNOME_SHELL" -> "GNOME Shell"
      [] type = "COMPOSITOR_TYPE_MUTTER"      -> "Mutter"
      [] type = "COMPOSITOR_TYPE_WESTON"      -> "Weston"
      [] type = "COMPOSITOR_TYPE_GENERIC"     -> "Generic wlroots"
      [] OTHER                                -> "Unknown"

compositor_detect(display, env) ==
    LET proto   == detect_protocols(display)
        type    == detect_compositor_type(proto, env)
        version == getenv(env, "COMPOSITOR_VERSION")
    IN  [type            |-> type,
         name            |-> compositor_type_to_string(type),
         has_layer_shell |-> proto.has_layer_shell,
         has_kde_shell   |-> proto.has_kde_shell,
         has_gtk_shell   |-> proto.has_gtk_shell,
         version         |-> IF version # NULLSTR THEN version ELSE s_unknown]

(***************************************************************************)
(* Backend registration                                                    *)
(***************************************************************************)

MAX_BACKENDS == 16

\* The static registry as one value: R.registry is the occupied prefix of
\* the array backend_registry (slot i of the array is R.registry[i + 1];
\* the slots from backend_count on are zero and never read), R.count is
\* backend_count.
registry_empty == [registry |-> <<>>, count |-> 0]

\* Mutation of compositor_backend_register: a full registry overwrites its
\* last slot instead of rejecting.
compositor_backend_register_overwrites_last(R, name, description, priority, ops) ==
    IF name = NULL \/ ops = NULL
      THEN [ok |-> FALSE, R |-> R]
    ELSE IF \E i \in 1..R.count : R.registry[i].name = name
      THEN [ok |-> FALSE, R |-> R]
    ELSE LET kept == IF R.count >= MAX_BACKENDS THEN R.count - 1 ELSE R.count
         IN  [ok |-> TRUE,
              R  |-> [registry |-> Append(SubSeq(R.registry, 1, kept),
                                          [name        |-> name,
                                           description |-> description,
                                           priority    |-> priority,
                                           ops         |-> ops]),
                      count    |-> kept + 1]]

\* Mutation of compositor_backend_register: no search for the name.
compositor_backend_register_no_duplicate_check(R, name, description, priority, ops) ==
    IF R.count >= MAX_BACKENDS
      THEN [ok |-> FALSE, R |-> R]
    ELSE IF name = NULL \/ ops = NULL
      THEN [ok |-> FALSE, R |-> R]
    ELSE [ok |-> TRUE,
          R  |-> [registry |-> Append(SubSeq(R.registry, 1, R.count),
                                      [name        |-> name,
                                       description |-> description,
                                       priority    |-> priority,
                                       ops         |-> ops]),
                  count    |-> R.count + 1]]

\* Mutation of compositor_backend_register: the operation table is not
\* tested.
compositor_backend_register_no_ops_check(R, name, description, priority, ops) ==
    IF R.count >= MAX_BACKENDS
      THEN [ok |-> FALSE, R |-> R]
    ELSE IF name = NULL
      THEN [ok |-> FALSE, R |-> R]
    ELSE IF \E i \in 1..R.count : R.registry[i].name = name
      THEN [ok |-> FALSE, R |-> R]
    ELSE [ok |-> TRUE,
          R  |-> [registry |-> Append(SubSeq(R.registry, 1, R.count),
                                      [name        |-> name,
                                       description |-> description,
                                       priority    |-> priority,
                                       ops         |-> ops]),
                  count    |-> R.count + 1]]

\* compositor_backend_register on registry value R: the value afterwards and
\* the boolean the call returns.
compositor_backend_register(R, name, description, priority, ops) ==
    IF R.count >= MAX_BACKENDS
      THEN [ok |-> FALSE, R |-> R]
    ELSE IF name = NULL \/ ops = NULL
      THEN [ok |-> FALSE, R |-> R]
    ELSE IF \E i \in 1..R.count : R.registry[i].name = name
      THEN [ok |-> FALSE, R |-> R]
    ELSE [ok |-> TRUE,
          R  |-> [registry |-> Append(SubSeq(R.registry, 1, R.count),
                                      [name        |-> name,
                                       description |-> description,
                                       priority    |-> priority,
                                       ops         |-> ops]),
                  count    |-> R.count + 1]]

\* What one compositor_backend_register call was given, met and returned.
register_call(R, name, description, priority, ops) ==
    [done        |-> TRUE,
     name        |-> name,
     description |-> description,
     priority    |-> priority,
     ops         |-> ops,
     before      |-> R,
     ok          |-> compositor_backend_register(R, name, description,
                                                 priority, ops).ok]

(***************************************************************************)
(* The backends' registration entry points.  Each one registers its        *)
(* descriptor and returns NULL; the return value of the register call is   *)
(* ignored.                                                                *)
(***************************************************************************)

BACKEND_NAME        == "x11"
BACKEND_DESCRIPTION == "X11/XCB backend with desktop window type (full compatibility)"
BACKEND_PRIORITY    == 50

HAVE_X11 == TRUE

compositor_backend_x11_init(R) ==
    compositor_backend_register(R, BACKEND_NAME, BACKEND_DESCRIPTION,
                                BACKEND_PRIORITY, "x11_backend_ops").R

compositor_backend_wlr_layer_shell_init(R) ==
    compositor_backend_register(R, "wlr-layer-shell", "wlr-layer-shell backend",
                                100, "wlr_layer_shell_ops").R

compositor_backend_kde_plasma_init(R) ==
    compositor_backend_register(R, "kde-plasma", "KDE Plasma backend",
                                90, "kde_plasma_ops").R

compositor_backend_gnome_shell_init(R) ==
    compositor_backend_register(R, "gnome-shell", "GNOME Shell backend",
                                80, "gnome_shell_ops").R

compositor_backend_fallback_init(R) ==
    compositor_backend_register(R, "fallback", "Fallback backend",
                                10, "fallback_ops").R

\* Lines 400-404 of compositor_backend_init: the registrations that come
\* before the fallback backend's.
register_backends_before_fallback(R) ==
    LET R1 == compositor_backend_wlr_layer_shell_init(R)
        R2 == compositor_backend_kde_plasma_init(R1)
        R3 == compositor_backend_gnome_shell_init(R2)
    IN  IF HAVE_X11 THEN compositor_backend_x11_init(R3) ELSE R3

\* Mutation of register_all_backends: the table is rebuilt from scratch.
register_all_backends_from_scratch(R) ==
    compositor_backend_fallback_init(
        register_backends_before_fallback(registry_empty))

\* Lines 396-406 of compositor_backend_init: register all available backends.
register_all_backends(R) ==
    compositor_backend_fallback_init(register_backends_before_fallback(R))

\* The last compositor_backend_register call of compositor_backend_init:
\* the one compositor_backend_fallback_init makes.
last_register_call(R) ==
    register_call(register_backends_before_fallback(R),
                  "fallback", "Fallback backend", 10, "fallback_ops")

(***************************************************************************)
(* Backend selection                                                       *)
(*                                                                         *)
(* A host is what the selection pass meets outside the registry:           *)
(*   host.init_ok[ops]  whether that operation table's init returns data   *)
(*   host.alloc_ok      whether calloc of struct compositor_backend works  *)
(***************************************************************************)

\* A null struct compositor_backend *.
NULL_BACKEND == [null |-> TRUE]

\* ops->init(state): backend data, or NULL.
ops_init(ops, host) == IF host.init_ok[ops] THEN "data:" \o ops ELSE NULL

COMPOSITOR_CAP_NONE == 0

\* ops->get_capabilities(data): the bitmask the backend reports.
ops_get_capabilities(ops, data) ==
    CASE ops = "wlr_layer_shell_ops" -> 121
      [] ops = "kde_plasma_ops"      -> 97
      [] ops = "gnome_shell_ops"     -> 2
      [] ops = "x11_backend_ops"     -> 64
      [] OTHER                       -> COMPOSITOR_CAP_NONE

\* Mutation of preferred_backend_name: KDE Plasma prefers its own backend.
preferred_backend_name_kde_native(info) ==
    IF info.type = "COMPOSITOR_TYPE_KDE_PLASMA"
      THEN "kde-plasma"
    ELSE IF info.type \in {"COMPOSITOR_TYPE_HYPRLAND", "COMPOSITOR_TYPE_SWAY",
                           "COMPOSITOR_TYPE_RIVER", "COMPOSITOR_TYPE_WAYFIRE"}
      THEN "wlr-layer-shell"
    ELSE IF info.type \in {"COMPOSITOR_TYPE_GNOME_SHELL", "COMPOSITOR_TYPE_MUTTER"}
      THEN "gnome-shell"
    ELSE IF info.has_layer_shell
      THEN "wlr-layer-shell"
      ELSE "fallback"

\* Lines 276-308 of select_backend: the preferred backend name.
preferred_backend_name(info) ==
    IF info.type = "COMPOSITOR_TYPE_KDE_PLASMA"
      THEN "wlr-layer-shell"
    ELSE IF info.type \in {"COMPOSITOR_TYPE_HYPRLAND", "COMPOSITOR_TYPE_SWAY",
                           "COMPOSITOR_TYPE_RIVER", "COMPOSITOR_TYPE_WAYFIRE"}
      THEN "wlr-layer-shell"
    ELSE IF info.type \in {"COMPOSITOR_TYPE_GNOME_SHELL", "COMPOSITOR_TYPE_MUTTER"}
      THEN "gnome-shell"
    ELSE IF info.has_layer_shell
      THEN "wlr-layer-shell"
      ELSE "fallback"

\* Position of the first registry entry called name, or 0 when the loop
\* over the backend_count entries meets none.
registry_find(R, name) ==
    IF \E i \in 1..R.count : R.registry[i].name = name
      THEN CHOOSE i \in 1..R.count :
             /\ R.registry[i].name = name
             /\ \A j \in 1..(i - 1) : R.registry[j].name # name
      ELSE 0

\* The struct compositor_backend that a loop fills in for entry e.
\* Mutation of wrap_backend: the priority is left as calloc zeroed it.
wrap_backend_no_priority(e, backend_data) ==
    [name         |-> e.name,
     description  |-> e.description,
     priority     |-> 0,
     ops          |-> e.ops,
     data         |-> backend_data,
     capabilities |-> ops_get_capabilities(e.ops, backend_data)]

\* Lines 329-334 and 360-365: the struct compositor_backend for entry e.
wrap_backend(e, backend_data) ==
    [name         |-> e.name,
     description  |-> e.description,
     priority     |-> e.priority,
     ops          |-> e.ops,
     data         |-> backend_data,
     capabilities |-> ops_get_capabilities(e.ops, backend_data)]

\* One of the two search loops of select_backend (lines 311-339, 345-370):
\* find the entry called name, run its init, wrap the data.
\*   how = "absent"       no entry of that name, the loop ends
\*   how = "init_failed"  init returned NULL, break
\*   how = "no_memory"    calloc failed: cleanup(data), return NULL
\*   how = "selected"     return backend
try_backend(R, name, host) ==
    LET i == registry_find(R, name) IN
    IF i = 0
      THEN [how |-> "absent", backend |-> NULL_BACKEND,
            inits |-> <<>>, cleanups |-> <<>>, caps_queries |-> <<>>]
    ELSE
      LET e            == R.registry[i]
          backend_data == ops_init(e.ops, host)
          call         == [name |-> e.name, ops |-> e.ops, data |-> backend_data]
      IN
      IF backend_data = NULL
        THEN [how |-> "init_failed", backend |-> NULL_BACKEND,
              inits |-> <<call>>, cleanups |-> <<>>, caps_queries |-> <<>>]
      ELSE IF ~host.alloc_ok
        THEN [how |-> "no_memory", backend |-> NULL_BACKEND,
              inits |-> <<call>>, cleanups |-> <<call>>, caps_queries |-> <<>>]
      ELSE [how      |-> "selected",
            backend  |-> wrap_backend(e, backend_data),
            inits    |-> <<call>>,
            cleanups |-> <<>>,
            caps_queries |-> <<call>>]

\* The result of a loop that is not entered.
try_skipped ==
    [how |-> "skipped", backend |-> NULL_BACKEND,
     inits |-> <<>>, cleanups |-> <<>>, caps_queries |-> <<>>]

\* Mutation of fallback_tried: no retry after a failed init.
fallback_tried_only_if_absent(how, preferred_backend) ==
    /\ how = "absent"
    /\ preferred_backend # "fallback"

\* Mutation of fallback_tried: no retry when the preferred name is absent.
fallback_tried_only_after_init(how, preferred_backend) ==
    /\ how = "init_failed"
    /\ preferred_backend # "fallback"

\* Mutation of fallback_tried: the preferred name is not compared.
fallback_tried_always(how, preferred_backend) ==
    how \in {"absent", "init_failed"}

\* Whether control reaches the second loop: the first loop ended without
\* returning (no entry, or break after a failed init) and line 342 holds.
fallback_tried(how, preferred_backend) ==
    /\ how \in {"absent", "init_failed"}
    /\ preferred_backend # "fallback"

\* Lines 310-375 of select_backend, for a given preferred name: the
\* preferred loop, then the "fallback" loop when the first loop neither
\* returned nor was already about "fallback".
select_by_name(R, preferred_backend, host) ==
    LET first  == try_backend(R, preferred_backend, host)
        retry  == fallback_tried(first.how, preferred_backend)
        second == IF retry THEN try_backend(R, "fallback", host) ELSE try_skipped
    IN  [preferred    |-> preferred_backend,
         first        |-> first.how,
         second       |-> second.how,
         backend      |-> IF first.how = "selected" THEN first.backend
                                                    ELSE second.backend,
         inits        |-> first.inits \o second.inits,
         cleanups     |-> first.cleanups \o second.cleanups,
         caps_queries |-> first.caps_queries \o second.caps_queries]

select_backend(R, info, host) ==
    select_by_name(R, preferred_backend_name(info), host)

(***************************************************************************)
(* Public API: compositor_backend_init                                     *)
(***************************************************************************)

\* A null struct neowall_state *, and a null state->display.
NULL_STATE   == [null |-> TRUE]
NULL_DISPLAY == [null |-> TRUE, has_registry |-> FALSE, globals |-> {},
                 removed |-> {}]

\* compositor_backend_init(state) on registry value R, in process
\* environment env, on host: the registry afterwards, the pointer returned
\* and what the call did.
compositor_backend_init(R, state, env, host) ==
    IF state = NULL_STATE \/ state.display = NULL_DISPLAY
      THEN [R |-> R, backend |-> NULL_BACKEND, valid |-> FALSE]
    ELSE
      LET info == compositor_detect(state.display, env)
          R5   == register_all_backends(R)
          pass == select_backend(R5, info, host)
      IN  [R |-> R5, backend |-> pass.backend, valid |-> TRUE,
           info |-> info, host |-> host, pass |-> pass]

(***************************************************************************)
(* Public API: compositor_backend_cleanup                                  *)
(***************************************************************************)

\* Mutation of compositor_backend_cleanup: the cleanup operation runs twice.
compositor_backend_cleanup_twice(b) ==
    IF b = NULL_BACKEND
      THEN [cleanups |-> <<>>, freed |-> FALSE]
    ELSE [cleanups |-> <<[name |-> b.name, ops |-> b.ops, data |-> b.data],
                         [name |-> b.name, ops |-> b.ops, data |-> b.data]>>,
          freed    |-> TRUE]

\* compositor_backend_cleanup(b): the ops->cleanup calls it makes and
\* whether it frees b.  Every operation table supplies a cleanup.
compositor_backend_cleanup(b) ==
    IF b = NULL_BACKEND
      THEN [cleanups |-> <<>>, freed |-> FALSE]
    ELSE [cleanups |-> IF b.ops # NULL /\ b.data # NULL
                         THEN <<[name |-> b.name, ops |-> b.ops,
                                 data |-> b.data]>>
                         ELSE <<>>,
          freed    |-> TRUE]

(***************************************************************************)
(* Public API: compositor_backend_get_capabilities                         *)
(***************************************************************************)

\* Mutation of compositor_backend_get_capabilities: the backend is asked
\* again.
compositor_backend_get_capabilities_requeries(b) ==
    IF b = NULL_BACKEND
      THEN [capabilities |-> COMPOSITOR_CAP_NONE, caps_queries |-> <<>>]
      ELSE [capabilities |-> ops_get_capabilities(b.ops, b.data),
            caps_queries |-> <<[name |-> b.name, ops |-> b.ops,
                                data |-> b.data]>>]

\* compositor_backend_get_capabilities(b): the bitmask returned and the
\* ops->get_capabilities calls made to produce it.
compositor_backend_get_capabilities(b) ==
    IF b = NULL_BACKEND
      THEN [capabilities |-> COMPOSITOR_CAP_NONE, caps_queries |-> <<>>]
      ELSE [capabilities |-> b.capabilities, caps_queries |-> <<>>]

(***************************************************************************)
(* Live backend data                                                       *)
(***************************************************************************)

\* The backend data that the init calls returned.
RECURSIVE created_data(_)
created_data(inits) ==
    IF inits = <<>> THEN <<>>
    ELSE IF Head(inits).data = NULL THEN created_data(Tail(inits))
    ELSE <<Head(inits).data>> \o created_data(Tail(inits))

\* datas without the first occurrence of data.
RECURSIVE remove_first(_, _)
remove_first(datas, data) ==
    IF datas = <<>> THEN <<>>
    ELSE IF Head(datas) = data THEN Tail(datas)
    ELSE <<Head(datas)>> \o remove_first(Tail(datas), data)

\* datas without the data that the cleanup calls released.
RECURSIVE after_cleanups(_, _)
after_cleanups(datas, cleanups) ==
    IF cleanups = <<>> THEN datas
    ELSE after_cleanups(remove_first(datas, Head(cleanups).data),
                        Tail(cleanups))

(***************************************************************************)
(* The X11 backend (src/src/compositor/backends/x11.c)                     *)
(*                                                                         *)
(* A world W is what the backend's operations read and write:              *)
(*   W.x11       the x11_backend_data_t, or NULL_DATA before it exists     *)
(*   W.surfaces  the struct compositor_surface objects ever allocated, a   *)
(*               pointer being the position in the sequence and 0 the null *)
(*               pointer; a freed object stays where it was, marked freed  *)
(*   W.windows   the X server's windows, the window id being the position  *)
(*               and 0 XCB_WINDOW_NONE                                     *)
(***************************************************************************)

\* A null void *data, and a null const compositor_surface_config_t *.
NULL_DATA   == [null |-> TRUE]
NULL_CONFIG == [null |-> TRUE]

XCB_WINDOW_NONE == 0

\* Conversion of an int32_t to uint16_t.
uint16(v) == v % 65536

\* x11_detect_outputs without RandR: one output covering the screen; with
\* RandR: one output for every usable entry of the reply, each new one put
\* at the head of the list, and failure when none is left.
\*   R.reply_ok  whether the screen resources reply arrived
\*   R.outputs   per RandR output: info_ok, connected, has_crtc, crtc_ok,
\*               alloc_ok and the CRTC geometry
RECURSIVE x11_detect_randr_outputs(_, _)
x11_detect_randr_outputs(list, entries) ==
    IF entries = <<>> THEN list
    ELSE LET e == Head(entries) IN
         IF ~e.info_ok \/ ~e.connected \/ ~e.has_crtc \/ ~e.crtc_ok \/ ~e.alloc_ok
           THEN x11_detect_randr_outputs(list, Tail(entries))
           ELSE x11_detect_randr_outputs(
                    <<[x |-> e.x, y |-> e.y, width |-> e.width,
                       height |-> e.height, surface |-> 0]>> \o list,
                    Tail(entries))

x11_detect_outputs(has_randr, screen, R, alloc_ok) ==
    IF ~has_randr
      THEN IF ~alloc_ok
             THEN [ok |-> FALSE, outputs |-> <<>>]
             ELSE [ok |-> TRUE,
                   outputs |-> <<[x |-> 0, y |-> 0, width |-> screen.width,
                                  height |-> screen.height, surface |-> 0]>>]
    ELSE IF ~R.reply_ok
      THEN [ok |-> FALSE, outputs |-> <<>>]
    ELSE LET list == x11_detect_randr_outputs(<<>>, R.outputs)
         IN  [ok |-> Len(list) > 0, outputs |-> list]

\* x11_backend_init(state) on an X server described by xhost: the backend
\* data, or NULL_DATA on any failure.
\*   xhost.connect_ok  calloc, XOpenDisplay, XGetXCBConnection and the
\*                     desktop window type atom all succeed
x11_backend_init(state, xhost) ==
    IF state = NULL_STATE THEN NULL_DATA
    ELSE IF ~xhost.connect_ok THEN NULL_DATA
    ELSE LET det_out == x11_detect_outputs(xhost.has_randr, xhost.screen,
                                           xhost.randr, xhost.alloc_ok)
         IN  IF ~det_out.ok THEN NULL_DATA
             ELSE [initialized |-> TRUE,
                   has_randr   |-> xhost.has_randr,
                   has_xfixes  |-> xhost.has_xfixes,
                   outputs     |-> det_out.outputs]

\* The requests x11_create_desktop_window sends for a window once the
\* create request was accepted, in the order it sends them.
window_property_requests(has_xfixes) ==
    <<"net_wm_window_type_desktop", "net_wm_state_below_sticky",
      "net_wm_name">>
    \o (IF has_xfixes THEN <<"input_shape_region_empty">> ELSE <<>>)

\* Mutation of x11_create_desktop_window: the window type property is not
\* set.
x11_create_desktop_window_no_window_type(W, x, y, width, height, request_ok) ==
    IF ~request_ok \/ width = 0 \/ height = 0
      THEN [window |-> XCB_WINDOW_NONE, windows |-> W.windows]
      ELSE [window  |-> Len(W.windows) + 1,
            windows |-> Append(W.windows,
                               [exists |-> TRUE, x |-> x, y |-> y,
                                width |-> width, height |-> height,
                                requested_width |-> width,
                                requested_height |-> height,
                                override_redirect |-> TRUE,
                                input_passthrough |-> W.x11.has_xfixes,
                                requests |->
                                    <<"create_window">> \o
                                    Tail(window_property_requests(
                                             W.x11.has_xfixes)),
                                mapped |-> FALSE, destroys |-> 0])]

\* x11_create_desktop_window: the id of the new window and the server's
\* windows afterwards; XCB_WINDOW_NONE when the checked request fails.  The
\* server rejects a window of width or height 0.  requests is the list of
\* the requests that made the window what it is, oldest first.
x11_create_desktop_window(W, x, y, width, height, request_ok) ==
    IF ~request_ok \/ width = 0 \/ height = 0
      THEN [window |-> XCB_WINDOW_NONE, windows |-> W.windows]
      ELSE [window  |-> Len(W.windows) + 1,
            windows |-> Append(W.windows,
                               [exists |-> TRUE, x |-> x, y |-> y,
                                width |-> width, height |-> height,
                                requested_width |-> width,
                                requested_height |-> height,
                                override_redirect |-> TRUE,
                                input_passthrough |-> W.x11.has_xfixes,
                                requests |->
                                    <<"create_window">> \o
                                    window_property_requests(W.x11.has_xfixes),
                                mapped |-> FALSE, destroys |-> 0])]

\* Mutation of x11_create_surface: the surface structure is kept when the
\* window cannot be created.
x11_create_surface_keeps_surface(W, data, config, mem) ==
    IF data = NULL \/ config = NULL_CONFIG
      THEN [surface |-> 0, W |-> W, allocs |-> {}, frees |-> {}]
    ELSE IF ~W.x11.initialized
      THEN [surface |-> 0, W |-> W, allocs |-> {}, frees |-> {}]
    ELSE IF W.x11.outputs = <<>>
      THEN [surface |-> 0, W |-> W, allocs |-> {}, frees |-> {}]
    ELSE IF ~mem.surface_ok
      THEN [surface |-> 0, W |-> W, allocs |-> {}, frees |-> {}]
    ELSE IF ~mem.surface_data_ok
      THEN [surface |-> 0, W |-> W,
            allocs |-> {"surface"}, frees |-> {"surface"}]
    ELSE
      LET output == W.x11.outputs[1]
          width  == uint16(IF config.width > 0 THEN config.width
                                               ELSE output.width)
          height == uint16(IF config.height > 0 THEN config.height
                                                ELSE output.height)
          made   == x11_create_desktop_window(W, output.x, output.y,
                                              width, height, mem.window_ok)
      IN
      IF made.window = XCB_WINDOW_NONE
        THEN [surface |-> 0, W |-> W,
              allocs |-> {"surface", "surface_data"},
              frees  |-> {"surface_data"}]
      ELSE
        LET surface == Len(W.surfaces) + 1
            object  ==
              [freed        |-> FALSE,
               frees        |-> 0,
               egl_window   |-> 0,
               egl_surface  |-> "EGL_NO_SURFACE",
               output       |-> config.output,
               width        |-> width,
               height       |-> height,
               scale        |-> 1,
               config       |-> config,
               configured   |-> FALSE,
               committed    |-> FALSE,
               backend      |-> NULL,
               commits      |-> 0,
               backend_data |-> [freed       |-> FALSE,
                                 frees       |-> 0,
                                 window      |-> made.window,
                                 xlib_window |-> made.window,
                                 output      |-> 1,
                                 mapped      |-> TRUE,
                                 configured  |-> TRUE]]
        IN  [surface |-> surface,
             W |-> [x11      |-> [W.x11 EXCEPT !.outputs[1].surface = surface],
                    surfaces |-> Append(W.surfaces, object),
                    windows  |-> [made.windows EXCEPT
                                     ![made.window].mapped = TRUE,
                                     ![made.window].requests =
                                         Append(@, "map_window")]],
             allocs |-> {"surface", "surface_data"},
             frees  |-> {}]

\* x11_create_surface(data, config): the pointer returned, the world
\* afterwards, and what the call allocated and freed.
\*   mem.surface_ok, mem.surface_data_ok  whether the two callocs succeed
\*   mem.window_ok                        whether the server accepts the
\*                                        create window request
x11_create_surface(W, data, config, mem) ==
    IF data = NULL \/ config = NULL_CONFIG
      THEN [surface |-> 0, W |-> W, allocs |-> {}, frees |-> {}]
    ELSE IF ~W.x11.initialized
      THEN [surface |-> 0, W |-> W, allocs |-> {}, frees |-> {}]
    ELSE IF W.x11.outputs = <<>>
      THEN [surface |-> 0, W |-> W, allocs |-> {}, frees |-> {}]
    ELSE IF ~mem.surface_ok
      THEN [surface |-> 0, W |-> W, allocs |-> {}, frees |-> {}]
    ELSE IF ~mem.surface_data_ok
      THEN [surface |-> 0, W |-> W,
            allocs |-> {"surface"}, frees |-> {"surface"}]
    ELSE
      LET output == W.x11.outputs[1]
          width  == uint16(IF config.width > 0 THEN config.width
                                               ELSE output.width)
          height == uint16(IF config.height > 0 THEN config.height
                                                ELSE output.height)
          made   == x11_create_desktop_window(W, output.x, output.y,
                                              width, height, mem.window_ok)
      IN
      IF made.window = XCB_WINDOW_NONE
        THEN [surface |-> 0, W |-> W,
              allocs |-> {"surface", "surface_data"},
              frees  |-> {"surface", "surface_data"}]
      ELSE
        LET surface == Len(W.surfaces) + 1
            object  ==
              [freed        |-> FALSE,
               frees        |-> 0,
               egl_window   |-> 0,
               egl_surface  |-> "EGL_NO_SURFACE",
               output       |-> config.output,
               width        |-> width,
               height       |-> height,
               scale        |-> 1,
               config       |-> config,
               configured   |-> FALSE,
               committed    |-> FALSE,
               backend      |-> NULL,
               commits      |-> 0,
               backend_data |-> [freed       |-> FALSE,
                                 frees       |-> 0,
                                 window      |-> made.window,
                                 xlib_window |-> made.window,
                                 output      |-> 1,
                                 mapped      |-> TRUE,
                                 configured  |-> TRUE]]
        IN  [surface |-> surface,
             W |-> [x11      |-> [W.x11 EXCEPT !.outputs[1].surface = surface],
                    surfaces |-> Append(W.surfaces, object),
                    windows  |-> [made.windows EXCEPT
                                     ![made.window].mapped = TRUE,
                                     ![made.window].requests =
                                         Append(@, "map_window")]],
             allocs |-> {"surface", "surface_data"},
             frees  |-> {}]

\* What x11_destroy_surface does once it has read the surface: destroy the
\* window, clear the output's reference, free the surface data and the
\* surface.
x11_destroy_surface_body(W, surface) ==
    LET object       == W.surfaces[surface]
        surface_data == object.backend_data
        window       == surface_data.window
    IN  [x11      |-> IF surface_data.output # 0
                        THEN [W.x11 EXCEPT
                                 !.outputs[surface_data.output].surface = 0]
                        ELSE W.x11,
         surfaces |-> [W.surfaces EXCEPT
                          ![surface].freed = TRUE,
                          ![surface].frees = @ + 1,
                          ![surface].backend_data.freed = TRUE,
                          ![surface].backend_data.frees = @ + 1],
         windows  |-> IF window # XCB_WINDOW_NONE
                        THEN [W.windows EXCEPT ![window].exists = FALSE,
                                               ![window].mapped = FALSE,
                                               ![window].destroys = @ + 1]
                        ELSE W.windows]

\* x11_destroy_surface(surface).  The function reads *surface without any
\* test but the null test: on a surface that was freed before, that is a
\* use of freed memory, whose outcomes here are
\*   "stale"  the memory still holds what it held, the body runs again
\*   "abort"  the process is terminated before anything is changed
\* The result also tells which window the destroy request named (0 when
\* none was sent) and what surface->egl_window held when it was sent.
x11_destroy_surface(W, surface, outcome) ==
    IF surface = 0
      THEN [W |-> W, aborted |-> FALSE,
            destroyed_window |-> XCB_WINDOW_NONE, egl_window_at_destroy |-> 0]
    ELSE IF W.surfaces[surface].freed /\ outcome = "abort"
      THEN [W |-> W, aborted |-> TRUE,
            destroyed_window |-> XCB_WINDOW_NONE, egl_window_at_destroy |-> 0]
    ELSE [W |-> x11_destroy_surface_body(W, surface), aborted |-> FALSE,
          destroyed_window |-> W.surfaces[surface].backend_data.window,
          egl_window_at_destroy |-> W.surfaces[surface].egl_window]

\* The resize request of x11_configure_surface and the X server's answer:
\* the values sent are remembered as the size last requested; width and
\* height arrive as 16-bit values, and 0 is rejected.
xcb_configure_window(window, width, height) ==
    IF ~window.exists \/ uint16(width) = 0 \/ uint16(height) = 0
      THEN [window EXCEPT !.requested_width = width,
                          !.requested_height = height]
      ELSE [window EXCEPT !.requested_width = width,
                          !.requested_height = height,
                          !.width = uint16(width), !.height = uint16(height)]

\* Mutation of x11_configure_surface: the new size is recorded but no
\* resize request is sent.
x11_configure_surface_no_resize_request(W, surface, config) ==
    IF surface = 0 \/ config = NULL_CONFIG
      THEN [ok |-> FALSE, W |-> W, resized |-> FALSE]
    ELSE
      LET object == W.surfaces[surface]
      IN
      IF config.width # object.width \/ config.height # object.height
        THEN [ok |-> TRUE,
              W  |-> [W EXCEPT
                         !.surfaces[surface].config = config,
                         !.surfaces[surface].width = config.width,
                         !.surfaces[surface].height = config.height],
              resized |-> TRUE]
        ELSE [ok |-> TRUE,
              W  |-> [W EXCEPT !.surfaces[surface].config = config],
              resized |-> FALSE]

\* Mutation of x11_configure_surface: the resize request is issued without
\* comparing the sizes.
x11_configure_surface_always_resizes(W, surface, config) ==
    IF surface = 0 \/ config = NULL_CONFIG
      THEN [ok |-> FALSE, W |-> W, resized |-> FALSE]
    ELSE
      LET window == W.surfaces[surface].backend_data.window
      IN  [ok |-> TRUE,
           W  |-> [W EXCEPT
                      !.surfaces[surface].config = config,
                      !.surfaces[surface].width = config.width,
                      !.surfaces[surface].height = config.height,
                      !.windows[window] =
                          xcb_configure_window(@, config.width, config.height)],
           resized |-> TRUE]

\* x11_configure_surface(surface, config): the boolean returned, the world
\* afterwards, and whether a resize request went to the server.
x11_configure_surface(W, surface, config) ==
    IF surface = 0 \/ config = NULL_CONFIG
      THEN [ok |-> FALSE, W |-> W, resized |-> FALSE]
    ELSE
      LET object == W.surfaces[surface]
          window == object.backend_data.window
      IN
      IF config.width # object.width \/ config.height # object.height
        THEN [ok |-> TRUE,
              W  |-> [W EXCEPT
                         !.surfaces[surface].config = config,
                         !.surfaces[surface].width = config.width,
                         !.surfaces[surface].height = config.height,
                         !.windows[window] =
                             xcb_configure_window(@, config.width,
                                                  config.height)],
              resized |-> TRUE]
        ELSE [ok |-> TRUE,
              W  |-> [W EXCEPT !.surfaces[surface].config = config],
              resized |-> FALSE]

\* x11_commit_surface(surface): flushes the connection; no field of the
\* surface is written.  commits counts the calls that got past the null
\* test, up to one.
x11_commit_surface(W, surface) ==
    IF surface = 0 THEN W
    ELSE [W EXCEPT !.surfaces[surface].commits = 1]

\* x11_create_egl_window(surface, width, height): the X window itself is
\* the native window handed to EGL.
x11_create_egl_window(W, surface, width, height) ==
    IF surface = 0
      THEN [ok |-> FALSE, W |-> W]
      ELSE [ok |-> TRUE,
            W  |-> [W EXCEPT
                       !.surfaces[surface].egl_window =
                           W.surfaces[surface].backend_data.xlib_window,
                       !.surfaces[surface].width = width,
                       !.surfaces[surface].height = height]]

\* x11_destroy_egl_window(surface)
x11_destroy_egl_window(W, surface) ==
    IF surface = 0 THEN W
    ELSE [W EXCEPT !.surfaces[surface].egl_window = 0]

COMPOSITOR_CAP_MULTI_OUTPUT == 64

\* x11_get_capabilities(data)
x11_get_capabilities(data) ==
    IF data # NULL_DATA /\ data.has_randr
      THEN COMPOSITOR_CAP_MULTI_OUTPUT
      ELSE COMPOSITOR_CAP_NONE

\* compositor.h, struct compositor_surface: the back-pointer to the backend
\* is filled in by the caller of create_surface; the X11 operations read it.
set_backend_pointer(W, surface) ==
    IF surface = 0 THEN W
    ELSE [W EXCEPT !.surfaces[surface].backend = BACKEND_NAME]

(***************************************************************************)
(* Renderer: frames (renderer.c)                                           *)
(*                                                                         *)
(* F is the file's frame state, the three statics current_surface,         *)
(* current_width and current_height.  G is the state of EGL and OpenGL ES  *)
(* as far as the renderer's calls change it:                               *)
(*   G.draw_surface  the surface of the last successful eglMakeCurrent     *)
(*   G.viewport      the last glViewport                                   *)
(*   G.textures      the texture names that exist                          *)
(* A renderer_context_t * is NULL or CTX, the one context of the run.      *)
(***************************************************************************)

EGL_NO_SURFACE == "EGL_NO_SURFACE"
EGL_NO_CONTEXT == "EGL_NO_CONTEXT"

\* The address of the renderer context.
CTX == "ctx"

\* A null const renderer_frame_config_t *.
NULL_FRAME_CONFIG == [null |-> TRUE]

frame_state_zero ==
    [current_surface |-> EGL_NO_SURFACE, current_width |-> 0,
     current_height |-> 0]

\* eglMakeCurrent(display, surface, surface, context) when EGL accepts it.
eglMakeCurrent(G, surface) == [G EXCEPT !.draw_surface = surface]

\* renderer_begin_frame(ctx, egl_surface, width, height)
\*   make_current_ok  whether eglMakeCurrent succeeds
renderer_begin_frame(F, G, ctx, egl_surface, width, height, make_current_ok) ==
    IF ctx = NULL
      THEN [ok |-> FALSE, F |-> F, G |-> G]
    ELSE IF egl_surface = EGL_NO_SURFACE
      THEN [ok |-> FALSE, F |-> F, G |-> G]
    ELSE IF ~make_current_ok
      THEN [ok |-> FALSE, F |-> F, G |-> G]
    ELSE [ok |-> TRUE,
          F  |-> [current_surface |-> egl_surface,
                  current_width   |-> width,
                  current_height  |-> height],
          G  |-> [eglMakeCurrent(G, egl_surface) EXCEPT
                     !.viewport = [width |-> width, height |-> height]]]

\* Mutation of renderer_render_frame: the test for an active frame is
\* missing.
renderer_render_frame_no_frame_check(F, ctx, config) ==
    IF ctx = NULL \/ config = NULL_FRAME_CONFIG
      THEN [ok |-> FALSE, F |-> F]
    ELSE [ok |-> TRUE, F |-> F]

\* renderer_render_frame(ctx, config): both content types are stubs that
\* draw nothing.
renderer_render_frame(F, ctx, config) ==
    IF ctx = NULL \/ config = NULL_FRAME_CONFIG
      THEN [ok |-> FALSE, F |-> F]
    ELSE IF F.current_surface = EGL_NO_SURFACE
      THEN [ok |-> FALSE, F |-> F]
    ELSE [ok |-> TRUE, F |-> F]

\* renderer_end_frame(ctx)
\*   swap_ok  whether eglSwapBuffers succeeds
\* swapped is the surface handed to eglSwapBuffers, EGL_NO_SURFACE when the
\* call is not made.
renderer_end_frame(F, ctx, swap_ok) ==
    IF ctx = NULL
      THEN [ok |-> FALSE, F |-> F, swapped |-> EGL_NO_SURFACE]
    ELSE IF F.current_surface = EGL_NO_SURFACE
      THEN [ok |-> FALSE, F |-> F, swapped |-> EGL_NO_SURFACE]
    ELSE IF ~swap_ok
      THEN [ok |-> FALSE, F |-> F, swapped |-> F.current_surface]
    ELSE [ok |-> TRUE, F |-> frame_state_zero, swapped |-> F.current_surface]

(***************************************************************************)
(* Renderer: textures (textures.c)                                         *)
(*                                                                         *)
(* T is the world of the texture functions:                                *)
(*   T.ctx       the renderer_context_t, of which egl_context and          *)
(*               gpu_memory_estimate matter here                           *)
(*   T.textures  the renderer_texture_t objects ever allocated, a pointer  *)
(*               being the position in the sequence and 0 the null pointer *)
(*   T.G         EGL and OpenGL ES, as above                               *)
(* The sizes of the runs are small, so that width * height * 4 stays       *)
(* within int and the sum of the sizes within uint64_t.                    *)
(***************************************************************************)

\* glGenTextures(1, &texture_id): a name not in use.
glGenTextures(G) ==
    CHOOSE id \in 1..(Cardinality(G.textures) + 1) : id \notin G.textures

\* The renderer_texture_t that the three creation functions fill in.
texture_handle(texture_id, width, height, memory_size) ==
    [freed       |-> FALSE,
     context     |-> CTX,
     texture_id  |-> texture_id,
     width       |-> width,
     height      |-> height,
     memory_size |-> memory_size]

\* renderer_texture_from_memory(ctx, pixels, width, height): the pointer
\* returned and the world afterwards.
\*   host.gl_ok      whether OpenGL accepts the upload (glGetError)
\*   host.malloc_ok  whether malloc of the handle succeeds
renderer_texture_from_memory(T, ctx, pixels, width, height, host) ==
    IF ctx = NULL \/ pixels = NULL \/ width <= 0 \/ height <= 0
      THEN [texture |-> 0, T |-> T]
    ELSE
      LET G1 == eglMakeCurrent(T.G, EGL_NO_SURFACE)
          texture_id == glGenTextures(G1)
      IN
      IF ~host.gl_ok \/ ~host.malloc_ok
        THEN [texture |-> 0, T |-> [T EXCEPT !.G = G1]]
      ELSE
        LET memory_size == width * height * 4
        IN  [texture |-> Len(T.textures) + 1,
             T |-> [ctx      |-> [T.ctx EXCEPT
                                     !.gpu_memory_estimate = @ + memory_size],
                    textures |-> Append(T.textures,
                                        texture_handle(texture_id, width,
                                                       height, memory_size)),
                    G        |-> [G1 EXCEPT
                                     !.textures = @ \cup {texture_id}]]]

\* The procedural texture types renderer_texture_procedural knows.
procedural_types ==
    {"rgba_noise", "default", "gray_noise", "blue_noise", "wood", "abstract"}

\* renderer_texture_procedural(ctx, type, size)
\*   host.gl_ok      whether the generator returns a texture (not 0)
\*   host.malloc_ok  whether malloc of the handle succeeds
renderer_texture_procedural(T, ctx, type, size, host) ==
    IF ctx = NULL \/ type = NULL \/ size <= 0
      THEN [texture |-> 0, T |-> T]
    ELSE
      LET G1 == eglMakeCurrent(T.G, EGL_NO_SURFACE)
          texture_id == glGenTextures(G1)
      IN
      IF type \notin procedural_types
        THEN [texture |-> 0, T |-> [T EXCEPT !.G = G1]]
      ELSE IF ~host.gl_ok
        THEN [texture |-> 0, T |-> [T EXCEPT !.G = G1]]
      ELSE IF ~host.malloc_ok
        THEN [texture |-> 0, T |-> [T EXCEPT !.G = G1]]
      ELSE
        LET memory_size == size * size * 4
        IN  [texture |-> Len(T.textures) + 1,
             T |-> [ctx      |-> [T.ctx EXCEPT
                                     !.gpu_memory_estimate = @ + memory_size],
                    textures |-> Append(T.textures,
                                        texture_handle(texture_id, size,
                                                       size, memory_size)),
                    G        |-> [G1 EXCEPT
                                     !.textures = @ \cup {texture_id}]]]

\* Mutation of renderer_texture_destroy: the memory estimate is left as it
\* was.
renderer_texture_destroy_keeps_estimate(T, texture) ==
    IF texture = 0 THEN T
    ELSE
      LET object == T.textures[texture]
      IN  IF object.context # NULL /\ T.ctx.egl_context # EGL_NO_CONTEXT
            THEN [ctx      |-> T.ctx,
                  textures |-> [T.textures EXCEPT ![texture].freed = TRUE],
                  G        |-> [eglMakeCurrent(T.G, EGL_NO_SURFACE) EXCEPT
                                   !.textures = @ \ {object.texture_id}]]
            ELSE [T EXCEPT !.textures[texture].freed = TRUE]

\* renderer_texture_destroy(texture)
renderer_texture_destroy(T, texture) ==
    IF texture = 0 THEN T
    ELSE
      LET object == T.textures[texture]
      IN  IF object.context # NULL /\ T.ctx.egl_context # EGL_NO_CONTEXT
            THEN [ctx      |-> IF T.ctx.gpu_memory_estimate >= object.memory_size
                                 THEN [T.ctx EXCEPT !.gpu_memory_estimate =
                                                       @ - object.memory_size]
                                 ELSE T.ctx,
                  textures |-> [T.textures EXCEPT ![texture].freed = TRUE],
                  G        |-> [eglMakeCurrent(T.G, EGL_NO_SURFACE) EXCEPT
                                   !.textures = @ \ {object.texture_id}]]
            ELSE [T EXCEPT !.textures[texture].freed = TRUE]

(***************************************************************************)
(* Renderer: the transition registry (transitions.c)                       *)
(***************************************************************************)

TRANSITION_NONE        == 0
TRANSITION_FADE        == 1
TRANSITION_SLIDE_LEFT  == 2
TRANSITION_SLIDE_RIGHT == 3
TRANSITION_GLITCH      == 4
TRANSITION_PIXELATE    == 5

\* A null transition_params_t *.
NULL_PARAMS == [null |-> TRUE]

\* static const transition_entry_t transitions[]
transitions ==
    <<[type |-> TRANSITION_FADE, name |-> "fade",
       render |-> "transition_fade_render"],
      [type |-> TRANSITION_SLIDE_LEFT, name |-> "slide_left",
       render |-> "transition_slide_left_render"],
      [type |-> TRANSITION_SLIDE_RIGHT, name |-> "slide_right",
       render |-> "transition_slide_right_render"],
      [type |-> TRANSITION_GLITCH, name |-> "glitch",
       render |-> "transition_glitch_render"],
      [type |-> TRANSITION_PIXELATE, name |-> "pixelate",
       render |-> "transition_pixelate_render"]>>

transition_count == Len(transitions)

\* The loops of the three functions: the first index from i on whose entry
\* satisfies the test, or 0 when the loop runs off the table.
RECURSIVE find_type(_, _)
find_type(i, type) ==
    IF i > transition_count THEN 0
    ELSE IF transitions[i].type = type THEN i
    ELSE find_type(i + 1, type)

\* strcmp(a, b) == 0
strcmp_equal(a, b) == a = b

RECURSIVE find_name(_, _)
find_name(i, str) ==
    IF i > transition_count THEN 0
    ELSE IF strcmp_equal(transitions[i].name, str) THEN i
    ELSE find_name(i + 1, str)

\* transition_render(params, type): the value returned and the render
\* function called ("none" when none is).
\*   render_ok  what the render function returns
transition_render(params, type, render_ok) ==
    IF params = NULL_PARAMS
      THEN [ok |-> FALSE, dispatched |-> "none"]
    ELSE LET i == find_type(1, type)
         IN  IF i # 0
               THEN [ok |-> render_ok, dispatched |-> transitions[i].render]
               ELSE [ok |-> FALSE, dispatched |-> "none"]

\* transition_get_name(type)
transition_get_name(type) ==
    LET i == find_type(1, type)
    IN  IF i # 0 THEN transitions[i].name ELSE "unknown"

\* Mutation of transition_parse: the index of the entry is returned in
\* place of its type.
transition_parse_returns_index(str) ==
    IF str = NULL THEN TRANSITION_NONE
    ELSE LET i == find_name(1, str)
         IN  IF i # 0 THEN i - 1 ELSE TRANSITION_NONE

\* transition_parse(str)
transition_parse(str) ==
    IF str = NULL THEN TRANSITION_NONE
    ELSE LET i == find_name(1, str)
         IN  IF i # 0 THEN transitions[i].type ELSE TRANSITION_NONE

(***************************************************************************)
(* State machine                                                           *)
(***************************************************************************)

Init ==
    /\ backend_registry = registry_empty.registry
    /\ backend_count = 0
    /\ backend = NULL_BACKEND
    /\ phase = "startup"
    /\ sel = [done |-> FALSE]
    /\ det = [done |-> FALSE]
    /\ reg = [done |-> FALSE]
    /\ live = <<>>
    /\ cln = [done |-> FALSE]
    /\ capq = [done |-> FALSE]
    /\ x11 = NULL_DATA
    /\ surfaces = <<>>
    /\ windows = <<>>
    /\ x11op = [op |-> "none", aborted |-> FALSE]
    /\ current_surface = EGL_NO_SURFACE
    /\ current_width = 0
    /\ current_height = 0
    /\ gl = [draw_surface |-> EGL_NO_SURFACE,
             viewport |-> [width |-> 0, height |-> 0], textures |-> {}]
    /\ frameop = [op |-> "none", ok |-> FALSE, in_frame |-> FALSE]
    /\ context = [egl_context |-> "egl_context", gpu_memory_estimate |-> 0]
    /\ textures = <<>>
    /\ texop = [op |-> "none", texture |-> 0, estimate_before |-> 0]
    /\ trop = [op |-> "none"]

\* Some code calls compositor_backend_register(name, description, priority, ops).
Register(name, description, priority, ops) ==
    \E r \in {compositor_backend_register(
                 [registry |-> backend_registry, count |-> backend_count],
                 name, description, priority, ops)} :
        /\ backend_registry' = r.R.registry
        /\ backend_count' = r.R.count
        /\ reg' = register_call(
                      [registry |-> backend_registry, count |-> backend_count],
                      name, description, priority, ops)
        /\ UNCHANGED <<backend, phase, sel, det, live, cln, capq>>
        /\ UNCHANGED <<x11_vars, renderer_vars>>

\* The owner calls compositor_backend_init(state) and keeps the result.
BackendInit(state, env, host) ==
    \E r \in {compositor_backend_init(
                 [registry |-> backend_registry, count |-> backend_count],
                 state, env, host)} :
        /\ backend_registry' = r.R.registry
        /\ backend_count' = r.R.count
        /\ backend' = r.backend
        /\ phase' = IF r.backend # NULL_BACKEND THEN "running" ELSE "failed"
        /\ sel' = IF r.valid
                    THEN [done |-> TRUE, valid |-> TRUE, state |-> state,
                          info |-> r.info, host |-> r.host, pass |-> r.pass]
                    ELSE [done |-> TRUE, valid |-> FALSE, state |-> state]
        /\ det' = IF r.valid
                    THEN [done    |-> TRUE,
                          display |-> state.display,
                          environ |-> env,
                          proto   |-> detect_protocols(state.display),
                          info    |-> r.info]
                    ELSE det
        /\ reg' = IF r.valid
                    THEN last_register_call(
                             [registry |-> backend_registry,
                              count    |-> backend_count])
                    ELSE reg
        /\ live' = IF r.valid
                     THEN after_cleanups(live \o created_data(r.pass.inits),
                                         r.pass.cleanups)
                     ELSE live
        /\ UNCHANGED <<cln, capq>>
        /\ UNCHANGED <<x11_vars, renderer_vars>>

\* The owner passes the pointer it holds to compositor_backend_cleanup and
\* forgets it.
BackendCleanup ==
    \E r \in {compositor_backend_cleanup(backend)} :
        /\ cln' = [done        |-> TRUE,
                   backend     |-> backend,
                   live_before |-> live,
                   cleanups    |-> r.cleanups,
                   freed       |-> r.freed]
        /\ live' = after_cleanups(live, r.cleanups)
        /\ backend' = NULL_BACKEND
        /\ phase' = IF phase = "running" THEN "stopped" ELSE phase
        /\ UNCHANGED <<backend_registry, backend_count, sel, det, reg, capq>>
        /\ UNCHANGED <<x11_vars, renderer_vars>>

\* Some code calls compositor_detect(display) in process environment env.
CompositorDetect(display, env) ==
    /\ det' = [done    |-> TRUE,
               display |-> display,
               environ |-> env,
               proto   |-> detect_protocols(display),
               info    |-> compositor_detect(display, env)]
    /\ UNCHANGED <<backend_registry, backend_count, backend, phase, sel,
                   reg, live, cln, capq>>
    /\ UNCHANGED <<x11_vars, renderer_vars>>

\* Some code calls compositor_backend_get_capabilities(b).
BackendGetCapabilities(b) ==
    \E r \in {compositor_backend_get_capabilities(b)} :
        /\ capq' = [done     |-> TRUE,
                    backend  |-> b,
                    returned |-> r.capabilities,
                    queries  |-> r.caps_queries]
        /\ UNCHANGED <<backend_registry, backend_count, backend, phase, sel,
                       det, reg, live, cln>>
        /\ UNCHANGED <<x11_vars, renderer_vars>>

\* The world the X11 operations act on.
world_now == [x11 |-> x11, surfaces |-> surfaces, windows |-> windows]

\* The selection pass calls x11_backend_ops.init(state).
X11BackendInit(state, xhost) ==
    \E data \in {x11_backend_init(state, xhost)} :
        /\ x11' = data
        /\ x11op' = [op |-> "init", aborted |-> FALSE, state |-> state,
                     xhost |-> xhost, ok |-> data # NULL_DATA]
        /\ UNCHANGED <<surfaces, windows>>
        /\ UNCHANGED <<registry_vars, renderer_vars>>

\* The caller asks for a surface, create_surface(data, config), and fills
\* in the back-pointer of the surface it gets.
X11CreateSurface(data, config, mem) ==
    \E r \in {x11_create_surface(world_now, data, config, mem)} :
      \E W \in {set_backend_pointer(r.W, r.surface)} :
        /\ x11' = W.x11
        /\ surfaces' = W.surfaces
        /\ windows' = W.windows
        /\ x11op' = [op |-> "create_surface", aborted |-> FALSE,
                     surface |-> r.surface, allocs |-> r.allocs,
                     frees |-> r.frees]
        /\ UNCHANGED <<registry_vars, renderer_vars>>

\* The caller calls destroy_surface(surface).
X11DestroySurface(surface, outcome) ==
    \E r \in {x11_destroy_surface(world_now, surface, outcome)} :
        /\ x11' = r.W.x11
        /\ surfaces' = r.W.surfaces
        /\ windows' = r.W.windows
        /\ x11op' = [op |-> "destroy_surface", aborted |-> r.aborted,
                     surface |-> surface,
                     destroyed_window |-> r.destroyed_window,
                     egl_window_at_destroy |-> r.egl_window_at_destroy]
        /\ UNCHANGED <<registry_vars, renderer_vars>>

\* The caller calls configure_surface(surface, config).
X11ConfigureSurface(surface, config) ==
    \E r \in {x11_configure_surface(world_now, surface, config)} :
        /\ x11' = r.W.x11
        /\ surfaces' = r.W.surfaces
        /\ windows' = r.W.windows
        /\ x11op' = [op |-> "configure_surface", aborted |-> FALSE,
                     surface |-> surface, config |-> config,
                     ok |-> r.ok, resized |-> r.resized,
                     repeated |-> /\ x11op.op = "configure_surface"
                                  /\ x11op.surface = surface
                                  /\ x11op.config = config,
                     first_ok |-> IF x11op.op = "configure_surface"
                                    THEN x11op.ok ELSE FALSE,
                     first_resized |-> IF x11op.op = "configure_surface"
                                         THEN x11op.resized ELSE FALSE]
        /\ UNCHANGED <<registry_vars, renderer_vars>>

\* The caller calls commit_surface(surface).
X11CommitSurface(surface) ==
    \E W \in {x11_commit_surface(world_now, surface)} :
        /\ x11' = W.x11
        /\ surfaces' = W.surfaces
        /\ windows' = W.windows
        /\ x11op' = [op |-> "commit_surface", aborted |-> FALSE,
                     surface |-> surface]
        /\ UNCHANGED <<registry_vars, renderer_vars>>

\* The caller calls create_egl_window(surface, width, height).
X11CreateEglWindow(surface, width, height) ==
    \E r \in {x11_create_egl_window(world_now, surface, width, height)} :
        /\ x11' = r.W.x11
        /\ surfaces' = r.W.surfaces
        /\ windows' = r.W.windows
        /\ x11op' = [op |-> "create_egl_window", aborted |-> FALSE,
                     surface |-> surface, ok |-> r.ok,
                     commits_before |-> IF surface = 0 THEN 0
                                        ELSE surfaces[surface].commits]
        /\ UNCHANGED <<registry_vars, renderer_vars>>

\* The caller calls destroy_egl_window(surface).
X11DestroyEglWindow(surface) ==
    \E W \in {x11_destroy_egl_window(world_now, surface)} :
        /\ x11' = W.x11
        /\ surfaces' = W.surfaces
        /\ windows' = W.windows
        /\ x11op' = [op |-> "destroy_egl_window", aborted |-> FALSE,
                     surface |-> surface]
        /\ UNCHANGED <<registry_vars, renderer_vars>>

\* The frame state of renderer.c.
frame_now ==
    [current_surface |-> current_surface, current_width |-> current_width,
     current_height |-> current_height]

\* Whether a frame is open after a call: a successful renderer_begin_frame
\* opens one, a successful renderer_end_frame closes it.
in_frame_after(op, ok) ==
    IF op = "begin_frame" /\ ok THEN TRUE
    ELSE IF op = "end_frame" /\ ok THEN FALSE
    ELSE frameop.in_frame

\* The caller calls renderer_begin_frame(ctx, egl_surface, width, height).
RendererBeginFrame(ctx, egl_surface, width, height, make_current_ok) ==
    \E r \in {renderer_begin_frame(frame_now, gl, ctx, egl_surface, width,
                                   height, make_current_ok)} :
        /\ current_surface' = r.F.current_surface
        /\ current_width' = r.F.current_width
        /\ current_height' = r.F.current_height
        /\ gl' = r.G
        /\ frameop' = [op |-> "begin_frame", ok |-> r.ok, ctx |-> ctx,
                       egl_surface |-> egl_surface,
                       make_current_ok |-> make_current_ok,
                       in_frame |-> in_frame_after("begin_frame", r.ok)]
        /\ UNCHANGED <<texture_vars, transition_vars>>
        /\ UNCHANGED <<registry_vars, x11_vars>>

\* The caller calls renderer_render_frame(ctx, config).
RendererRenderFrame(ctx, config) ==
    \E r \in {renderer_render_frame(frame_now, ctx, config)} :
        /\ current_surface' = r.F.current_surface
        /\ current_width' = r.F.current_width
        /\ current_height' = r.F.current_height
        /\ frameop' = [op |-> "render_frame", ok |-> r.ok, ctx |-> ctx,
                       config |-> config,
                       in_frame |-> in_frame_after("render_frame", r.ok)]
        /\ UNCHANGED <<gl, texture_vars, transition_vars>>
        /\ UNCHANGED <<registry_vars, x11_vars>>

\* The caller calls renderer_end_frame(ctx).
RendererEndFrame(ctx, swap_ok) ==
    \E r \in {renderer_end_frame(frame_now, ctx, swap_ok)} :
        /\ current_surface' = r.F.current_surface
        /\ current_width' = r.F.current_width
        /\ current_height' = r.F.current_height
        /\ frameop' = [op |-> "end_frame", ok |-> r.ok, ctx |-> ctx,
                       swapped |-> r.swapped,
                       in_frame |-> in_frame_after("end_frame", r.ok)]
        /\ UNCHANGED <<gl, texture_vars, transition_vars>>
        /\ UNCHANGED <<registry_vars, x11_vars>>

\* The world the texture functions act on.
texture_world_now == [ctx |-> context, textures |-> textures, G |-> gl]

\* The caller calls renderer_texture_from_memory(ctx, pixels, width, height).
RendererTextureFromMemory(ctx, pixels, width, height, host) ==
    \E r \in {renderer_texture_from_memory(texture_world_now, ctx, pixels,
                                           width, height, host)} :
        /\ context' = r.T.ctx
        /\ textures' = r.T.textures
        /\ gl' = r.T.G
        /\ texop' = [op |-> "from_memory", texture |-> r.texture,
                     estimate_before |-> context.gpu_memory_estimate]
        /\ UNCHANGED <<current_surface, current_width, current_height,
                       frameop, transition_vars>>
        /\ UNCHANGED <<registry_vars, x11_vars>>

\* The caller calls renderer_texture_procedural(ctx, type, size).
RendererTextureProcedural(ctx, type, size, host) ==
    \E r \in {renderer_texture_procedural(texture_world_now, ctx, type, size,
                                          host)} :
        /\ context' = r.T.ctx
        /\ textures' = r.T.textures
        /\ gl' = r.T.G
        /\ texop' = [op |-> "procedural", texture |-> r.texture,
                     estimate_before |-> context.gpu_memory_estimate]
        /\ UNCHANGED <<current_surface, current_width, current_height,
                       frameop, transition_vars>>
        /\ UNCHANGED <<registry_vars, x11_vars>>

\* The caller calls renderer_texture_destroy(texture).
RendererTextureDestroy(texture) ==
    \E T \in {renderer_texture_destroy(texture_world_now, texture)} :
        /\ context' = T.ctx
        /\ textures' = T.textures
        /\ gl' = T.G
        /\ texop' = [op |-> "destroy", texture |-> texture,
                     estimate_before |-> context.gpu_memory_estimate]
        /\ UNCHANGED <<current_surface, current_width, current_height,
                       frameop, transition_vars>>
        /\ UNCHANGED <<registry_vars, x11_vars>>

\* Some code calls transition_render(params, type).
TransitionRender(params, type, render_ok) ==
    \E r \in {transition_render(params, type, render_ok)} :
        /\ trop' = [op |-> "render", params |-> params, type |-> type,
                    ok |-> r.ok, dispatched |-> r.dispatched]
        /\ UNCHANGED <<frame_vars, texture_vars>>
        /\ UNCHANGED <<registry_vars, x11_vars>>

\* Some code calls transition_get_name(type).
TransitionGetName(type) ==
    /\ trop' = [op |-> "get_name", type |-> type,
                name |-> transition_get_name(type)]
    /\ UNCHANGED <<frame_vars, texture_vars>>
    /\ UNCHANGED <<registry_vars, x11_vars>>

\* Some code calls transition_parse(str); name_of tells the type whose
\* name str is when str is what the preceding transition_get_name call
\* returned, and -1 otherwise.
TransitionParse(str) ==
    /\ trop' = [op |-> "parse", str |-> str,
                type |-> transition_parse(str),
                name_of |-> IF trop.op = "get_name" /\ trop.name = str
                              THEN trop.type ELSE -1]
    /\ UNCHANGED <<frame_vars, texture_vars>>
    /\ UNCHANGED <<registry_vars, x11_vars>>

(***************************************************************************)
(* Inputs                                                                  *)
(***************************************************************************)

Interfaces ==
    {"zwlr_layer_shell_v1", "org_kde_plasma_shell", "gtk_shell1",
     "wp_viewporter", "wl_compositor"}

\* A display that yields no registry.
NO_REGISTRY == [has_registry |-> FALSE, globals |-> {}, removed |-> {}]

\* Globals that the server may remove again during the round trip.
RemovableInterfaces == {"zwlr_layer_shell_v1", "wl_compositor"}

Displays ==
    {NO_REGISTRY}
    \cup UNION {{[has_registry |-> TRUE, globals |-> g, removed |-> r] :
                     r \in SUBSET (g \cap RemovableInterfaces)} :
                  g \in SUBSET Interfaces}

s_empty       == <<>>
s_ubuntuGNOME == <<"u","b","u","n","t","u",":","G","N","O","M","E">>
s_wayland_1   == <<"w","a","y","l","a","n","d","-","1">>
s_hyprland_1  == <<"h","y","p","r","l","a","n","d","-","1">>
s_sway_1      == <<"s","w","a","y","-","1">>
s_swaysock    == <<"/","s","w","a","y",".","s","o","c","k">>
s_v1          == <<"1",".","0">>

DesktopValues ==
    {NULLSTR, s_empty, s_Hyprland, s_hyprland, s_sway, s_river, s_wayfire,
     s_KDE, s_GNOME, s_ubuntuGNOME, s_weston}

SessionValues ==
    {NULLSTR, s_Hyprland, s_sway, s_river, s_wayfire,
     s_plasma, s_gnome, s_mutter, s_weston}

WaylandDisplayValues == {NULLSTR, s_wayland_1, s_hyprland_1, s_sway_1}

SwaysockValues == {NULLSTR, s_empty, s_swaysock}

VersionValues == {NULLSTR, s_v1}

Environments ==
    {[XDG_CURRENT_DESKTOP |-> d, XDG_SESSION_DESKTOP |-> s,
      WAYLAND_DISPLAY |-> w, SWAYSOCK |-> k, COMPOSITOR_VERSION |-> v] :
        d \in DesktopValues, s \in SessionValues, w \in WaylandDisplayValues,
        k \in SwaysockValues, v \in VersionValues}

\* The inputs of the selection runs: one environment for every identity.
SelEnvironments ==
    {[XDG_CURRENT_DESKTOP |-> d, XDG_SESSION_DESKTOP |-> s,
      WAYLAND_DISPLAY |-> NULLSTR, SWAYSOCK |-> NULLSTR,
      COMPOSITOR_VERSION |-> NULLSTR] :
        d \in {NULLSTR, s_Hyprland, s_sway, s_river, s_wayfire,
               s_KDE, s_GNOME, s_weston},
        s \in {NULLSTR, s_mutter}}

SelStates ==
    {NULL_STATE, [display |-> NULL_DISPLAY]}
    \cup {[display |-> [has_registry |-> TRUE, globals |-> g, removed |-> {}]] :
             g \in {{}, {"zwlr_layer_shell_v1"}}}

BackendOps ==
    {"wlr_layer_shell_ops", "kde_plasma_ops", "gnome_shell_ops",
     "x11_backend_ops", "fallback_ops", "plugin_ops"}

\* select_backend never looks up "kde-plasma" or "x11", so the outcome of
\* their init is not varied.
Hosts ==
    {[init_ok |-> f, alloc_ok |-> a] :
        f \in {g \in [BackendOps -> BOOLEAN] :
                  g["kde_plasma_ops"] /\ g["x11_backend_ops"]},
        a \in BOOLEAN}

\* Names under which code outside the five backends registers: the k-th
\* slot's plugin, or a "fallback" of its own.
PluginName(k) == "plugin-" \o ToString(k)

SelRegisterNames == {NULL, "fallback", PluginName(backend_count)}

SelRegisterOps == {NULL, "plugin_ops"}

\* The states handed to compositor_backend_init in the detection runs.
DetectStates == SelStates \cup {[display |-> NO_REGISTRY]}

\* The inputs of the registry runs: registrations with null, empty,
\* repeated and fresh names, and selection passes in which every init works
\* or none does.
RegRegisterNames ==
    {NULL, "", "fallback", PluginName(backend_count)}

RegRegisterOps == {NULL, "plugin_ops"}

RegEnvironments ==
    {[XDG_CURRENT_DESKTOP |-> NULLSTR, XDG_SESSION_DESKTOP |-> NULLSTR,
      WAYLAND_DISPLAY |-> NULLSTR, SWAYSOCK |-> NULLSTR,
      COMPOSITOR_VERSION |-> NULLSTR]}

RegStates == {NULL_STATE, [display |-> NO_REGISTRY]}

RegHosts ==
    {[init_ok |-> [o \in BackendOps |-> ok], alloc_ok |-> TRUE] :
        ok \in BOOLEAN}

\* The inputs of the life-cycle runs.
MaxLifePlugins == 2

LifeRegisterNames == {"fallback", PluginName(backend_count)}

LifeEnvironments ==
    {[XDG_CURRENT_DESKTOP |-> d, XDG_SESSION_DESKTOP |-> NULLSTR,
      WAYLAND_DISPLAY |-> NULLSTR, SWAYSOCK |-> NULLSTR,
      COMPOSITOR_VERSION |-> NULLSTR] : d \in {NULLSTR, s_GNOME}}

LifeStates ==
    {NULL_STATE, [display |-> NO_REGISTRY],
     [display |-> [has_registry |-> TRUE, globals |-> {"zwlr_layer_shell_v1"},
                   removed |-> {}]]}

\* Hosts of the life-cycle runs: every init works, or exactly the named
\* tables' inits fail; with and without memory for the backend structure.
LifeHosts ==
    {[init_ok |-> [o \in BackendOps |-> o \notin failing], alloc_ok |-> a] :
        failing \in {{}, {"wlr_layer_shell_ops"}, {"fallback_ops", "plugin_ops"},
                     {"wlr_layer_shell_ops", "fallback_ops", "plugin_ops"}},
        a \in BOOLEAN}

\* The inputs of the X11 runs.
MaxSurfaces == 2

\* How often one object may be handed to free before the run stops
\* following it.
MaxFrees == 2

X11Screen == [width |-> 1920, height |-> 1080]

\* One RandR output with its CRTC geometry.
RandrOutput(connected) ==
    [info_ok |-> TRUE, connected |-> connected, has_crtc |-> TRUE,
     crtc_ok |-> TRUE, alloc_ok |-> TRUE,
     x |-> 0, y |-> 0, width |-> 1280, height |-> 720]

XHosts ==
    {[connect_ok |-> c, has_randr |-> FALSE, has_xfixes |-> FALSE,
      alloc_ok |-> a, screen |-> X11Screen,
      randr |-> [reply_ok |-> FALSE, outputs |-> <<>>]] :
        c \in BOOLEAN, a \in BOOLEAN}
    \cup
    {[connect_ok |-> TRUE, has_randr |-> TRUE, has_xfixes |-> TRUE,
      alloc_ok |-> TRUE, screen |-> X11Screen,
      randr |-> [reply_ok |-> ok, outputs |-> outs]] :
        ok \in BOOLEAN,
        outs \in {<<>>, <<RandrOutput(FALSE)>>,
                  <<RandrOutput(TRUE), RandrOutput(FALSE)>>}}

\* The neowall state handed to the X11 backend's init: on an X11 session
\* the Wayland display yields no registry.
X11_STATE == [display |-> NO_REGISTRY]

X11InitStates == {NULL_STATE, X11_STATE}

\* The pointers to backend data a caller can hold.
DataPointers == {NULL} \cup (IF x11 = NULL_DATA THEN {} ELSE {"x11_backend_data"})

SurfaceConfigs ==
    {[width |-> w, height |-> 600, output |-> NULL] : w \in {0, 800, 65536}}

ConfigPointers == {NULL_CONFIG} \cup SurfaceConfigs

\* The configurations handed to configure_surface.
ReconfigurePointers ==
    {NULL_CONFIG} \cup {c \in SurfaceConfigs : c.width < 65536}

SurfaceMemory ==
    {[surface_ok |-> a, surface_data_ok |-> b, window_ok |-> c] :
        a \in BOOLEAN, b \in BOOLEAN, c \in BOOLEAN}

\* The surface pointers a careful caller passes: null, or a surface that
\* was not destroyed.
LiveSurfaces == {i \in 1..Len(surfaces) : ~surfaces[i].freed}

\* The surface pointers a caller can pass to destroy_surface: null, or any
\* pointer create_surface ever returned.
DestroyPointers ==
    {0} \cup {i \in 1..Len(surfaces) : surfaces[i].frees < MaxFrees}

UseAfterFreeOutcomes == {"stale", "abort"}

EglSizes == {[width |-> 800, height |-> 600]}

\* The inputs of the frame runs.
ContextPointers == {NULL, CTX}

EglSurfaces == {EGL_NO_SURFACE, "egl_surface_1", "egl_surface_2"}

FrameSizes == {[width |-> 1920, height |-> 1080],
               [width |-> 1280, height |-> 720]}

FrameConfigs ==
    {NULL_FRAME_CONFIG, [type |-> "RENDERER_TYPE_IMAGE"],
     [type |-> "RENDERER_TYPE_SHADER"]}

\* The inputs of the texture runs.
MaxTextures == 3

PixelPointers == {NULL, "pixels"}

TextureWidths == {-1, 0, 1, 2}

TextureHeights == {0, 1, 3}

ProceduralTypeStrings == {NULL, "default", "wood", "marble"}

ProceduralSizes == {0, 1, 2}

TextureHosts ==
    {[gl_ok |-> g, malloc_ok |-> m] : g \in BOOLEAN, m \in BOOLEAN}

\* The texture pointers a caller passes to renderer_texture_destroy: null,
\* or a texture that was not destroyed.
LiveTextures == {i \in 1..Len(textures) : ~textures[i].freed}

\* The inputs of the transition runs: every value of the enumeration and
\* one beyond each end; a few parameter blocks; names in and out of the
\* table.
TransitionTypes == -1..6

TransitionParams ==
    {NULL_PARAMS}
    \cup {[prev_texture |-> 1, current_texture |-> 2, width |-> 1920,
           height |-> 1080, progress_percent |-> p, frame_count |-> f] :
            p \in {0, 25, 50, 75, 100}, f \in {0, 1}}

TransitionStrings ==
    {NULL, "", "fade", "slide_left", "slide_right", "glitch", "pixelate",
     "unknown", "none", "Fade", "slide", "fade "}

(***************************************************************************)
(* Specifications                                                          *)
(***************************************************************************)

\* The X11 backend in use: its init, then surface operations in any order.
NextX11 ==
    \/ /\ x11 = NULL_DATA
       /\ \E st \in X11InitStates, xh \in XHosts : X11BackendInit(st, xh)
    \/ /\ ~x11op.aborted
       /\ Len(surfaces) < MaxSurfaces
       /\ \E d \in DataPointers, c \in ConfigPointers, m \in SurfaceMemory :
             X11CreateSurface(d, c, m)
    \/ /\ ~x11op.aborted
       /\ \E sf \in DestroyPointers, o \in UseAfterFreeOutcomes :
             X11DestroySurface(sf, o)
    \/ /\ ~x11op.aborted
       /\ \E sf \in {0} \cup LiveSurfaces, c \in ReconfigurePointers :
             X11ConfigureSurface(sf, c)
    \/ /\ ~x11op.aborted
       /\ \E sf \in {0} \cup LiveSurfaces : X11CommitSurface(sf)
    \/ /\ ~x11op.aborted
       /\ \E sf \in {0} \cup LiveSurfaces, e \in EglSizes :
             X11CreateEglWindow(sf, e.width, e.height)
    \/ /\ ~x11op.aborted
       /\ \E sf \in {0} \cup LiveSurfaces : X11DestroyEglWindow(sf)

SpecX11 == Init /\ [][NextX11]_vars


\* The registry under any sequence of registrations and selection passes:
\* code registers backends at any time; the owner asks for a backend while
\* it holds none.
NextReg ==
    \/ \E n \in RegRegisterNames, o \in RegRegisterOps :
          Register(n, "plugin backend", 5, o)
    \/ /\ backend = NULL_BACKEND
       /\ \E st \in RegStates, e \in RegEnvironments, h \in RegHosts :
             BackendInit(st, e, h)

SpecReg == Init /\ [][NextReg]_vars

\* The life cycle of the backend instance: a few plugins register at
\* startup; the owner asks for a backend while it holds none and hands the
\* pointer it holds to compositor_backend_cleanup.
NextLife ==
    \/ /\ phase = "startup"
       /\ backend_count < MaxLifePlugins
       /\ \E n \in LifeRegisterNames : Register(n, "plugin backend", 5, "plugin_ops")
    \/ /\ backend = NULL_BACKEND
       /\ \E st \in LifeStates, e \in LifeEnvironments, h \in LifeHosts :
             BackendInit(st, e, h)
    \/ BackendCleanup
    \/ \E b \in {NULL_BACKEND, backend} : BackendGetCapabilities(b)

SpecLife == Init /\ [][NextLife]_vars

\* Registration and one selection pass per process: registration happens
\* at startup, before the single compositor_backend_init call.
NextSel ==
    \/ /\ phase = "startup"
       /\ \E n \in SelRegisterNames, o \in SelRegisterOps :
             Register(n, "plugin backend", 5, o)
    \/ /\ phase = "startup"
       /\ \E st \in SelStates, e \in SelEnvironments, h \in Hosts :
             BackendInit(st, e, h)

SpecSel == Init /\ [][NextSel]_vars

\* One detection run per process, at startup: a direct compositor_detect
\* call over the wide input sets, or the one that compositor_backend_init
\* makes.
NextDetect ==
    \/ /\ ~det.done
       /\ ~sel.done
       /\ \E d \in Displays, e \in Environments : CompositorDetect(d, e)
    \/ /\ ~det.done
       /\ ~sel.done
       /\ \E st \in DetectStates, e \in SelEnvironments, h \in Hosts :
             BackendInit(st, e, h)

SpecDetect == Init /\ [][NextDetect]_vars

\* The frame functions of the renderer, called in any order.
NextFrame ==
    \/ \E c \in ContextPointers, s \in EglSurfaces, z \in FrameSizes,
          m \in BOOLEAN : RendererBeginFrame(c, s, z.width, z.height, m)
    \/ \E c \in ContextPointers, f \in FrameConfigs : RendererRenderFrame(c, f)
    \/ \E c \in ContextPointers, w \in BOOLEAN : RendererEndFrame(c, w)

SpecFrame == Init /\ [][NextFrame]_vars

\* The texture functions of the renderer: creations while fewer than
\* MaxTextures handles were allocated, destruction of live textures.
NextTexture ==
    \/ /\ Len(textures) < MaxTextures
       /\ \E c \in ContextPointers, p \in PixelPointers, w \in TextureWidths,
             h \in TextureHeights, t \in TextureHosts :
             RendererTextureFromMemory(c, p, w, h, t)
    \/ /\ Len(textures) < MaxTextures
       /\ \E c \in ContextPointers, y \in ProceduralTypeStrings,
             z \in ProceduralSizes, t \in TextureHosts :
             RendererTextureProcedural(c, y, z, t)
    \/ \E x \in {0} \cup LiveTextures : RendererTextureDestroy(x)

SpecTexture == Init /\ [][NextTexture]_vars

\* The transition registry's functions, called in any order; a name that
\* transition_get_name returned may be handed to transition_parse.
NextTransition ==
    \/ \E p \in TransitionParams, t \in TransitionTypes, k \in BOOLEAN :
          TransitionRender(p, t, k)
    \/ \E t \in TransitionTypes : TransitionGetName(t)
    \/ \E s \in TransitionStrings \cup
                (IF trop.op = "get_name" THEN {trop.name} ELSE {}) :
          TransitionParse(s)

SpecTransition == Init /\ [][NextTransition]_vars

(***************************************************************************)
(* Properties of the classifier (checked under SpecDetect)                 *)
(***************************************************************************)

\* The identities that the environment of a run names, by the classifier's
\* own environment tests.
named_by_environment(env) ==
    {ty \in {"COMPOSITOR_TYPE_HYPRLAND", "COMPOSITOR_TYPE_SWAY",
             "COMPOSITOR_TYPE_RIVER", "COMPOSITOR_TYPE_WAYFIRE",
             "COMPOSITOR_TYPE_KDE_PLASMA", "COMPOSITOR_TYPE_GNOME_SHELL",
             "COMPOSITOR_TYPE_MUTTER", "COMPOSITOR_TYPE_WESTON"} :
        \/ ty = "COMPOSITOR_TYPE_HYPRLAND" /\ hyprland_detected(env)
        \/ ty = "COMPOSITOR_TYPE_SWAY" /\ sway_detected(env)
        \/ ty = "COMPOSITOR_TYPE_RIVER" /\ river_detected(env)
        \/ ty = "COMPOSITOR_TYPE_WAYFIRE" /\ wayfire_detected(env)
        \/ ty = "COMPOSITOR_TYPE_KDE_PLASMA"
              /\ (Contains(desktop_of(env), s_KDE) \/ Contains(session_of(env), s_plasma))
        \/ ty = "COMPOSITOR_TYPE_GNOME_SHELL"
              /\ (Contains(desktop_of(env), s_GNOME) \/ Contains(session_of(env), s_gnome))
        \/ ty = "COMPOSITOR_TYPE_MUTTER" /\ mutter_detected(env)
        \/ ty = "COMPOSITOR_TYPE_WESTON" /\ weston_detected(env)}

\* C7 (as claimed): environment hints are checked before capability flags:
\* whenever the environment names a compositor or desktop shell, the
\* classifier returns an identity the environment names, whatever the flags.
C7_EnvironmentBeforeFlags ==
    det.done =>
        (named_by_environment(det.environ) # {}
            => det.info.type \in named_by_environment(det.environ))

\* The wlroots compositors whose identifier occurs in one of the hints.
wlroots_named(hints) ==
    {ty \in {"COMPOSITOR_TYPE_HYPRLAND", "COMPOSITOR_TYPE_SWAY",
             "COMPOSITOR_TYPE_RIVER", "COMPOSITOR_TYPE_WAYFIRE"} :
        \E h \in hints :
            \/ ty = "COMPOSITOR_TYPE_HYPRLAND" /\ Contains(h, s_Hyprland)
            \/ ty = "COMPOSITOR_TYPE_SWAY" /\ Contains(h, s_sway)
            \/ ty = "COMPOSITOR_TYPE_RIVER" /\ Contains(h, s_river)
            \/ ty = "COMPOSITOR_TYPE_WAYFIRE" /\ Contains(h, s_wayfire)}

\* C8 (as claimed): if the desktop name, the session name or the
\* display-socket name contains a wlroots compositor's identifier, the
\* classifier returns that compositor's identity, whatever the flags.
C8_AnyHintNamesWlroots ==
    det.done =>
        LET named == wlroots_named({desktop_of(det.environ),
                                    session_of(det.environ),
                                    wayland_display_of(det.environ)})
        IN  named # {} => det.info.type \in named

\* C8 (amended): if the desktop name or the session name contains a wlroots
\* compositor's identifier, the classifier returns, whatever the flags, the
\* first of Hyprland, Sway, River, Wayfire that is indicated: Hyprland also
\* by a socket name containing "hyprland", Sway also by SWAYSOCK being set.
C8_DesktopOrSessionNamesWlroots ==
    det.done =>
        LET e     == det.environ
            named == wlroots_named({desktop_of(e), session_of(e)})
        IN  named # {} =>
              det.info.type =
                IF \/ "COMPOSITOR_TYPE_HYPRLAND" \in named
                   \/ Contains(wayland_display_of(e), s_hyprland)
                  THEN "COMPOSITOR_TYPE_HYPRLAND"
                ELSE IF \/ "COMPOSITOR_TYPE_SWAY" \in named
                        \/ e.SWAYSOCK # NULLSTR
                  THEN "COMPOSITOR_TYPE_SWAY"
                ELSE IF "COMPOSITOR_TYPE_RIVER" \in named
                  THEN "COMPOSITOR_TYPE_RIVER"
                  ELSE "COMPOSITOR_TYPE_WAYFIRE"

\* C8 witness: the session name says wayfire, the kde-shell and gtk-shell
\* flags are set, and Wayfire is returned.
C8_Witness ==
    /\ det.done
    /\ session_of(det.environ) = s_wayfire
    /\ desktop_of(det.environ) = NULLSTR
    /\ det.proto.has_kde_shell /\ det.proto.has_gtk_shell
    /\ det.info.type = "COMPOSITOR_TYPE_WAYFIRE"

\* No variable that the classifier reads is set.
no_environment_hints(env) ==
    /\ desktop_of(env) = NULLSTR
    /\ session_of(env) = NULLSTR
    /\ wayland_display_of(env) = NULLSTR
    /\ env.SWAYSOCK = NULLSTR

environments_with_same_hints ==
    {[det.environ EXCEPT !.SWAYSOCK = k, !.COMPOSITOR_VERSION = v] :
        k \in SwaysockValues, v \in VersionValues}

\* The identities that other runs return, on any display that yields the
\* flags of the recorded run and in any of the environments envs.
other_runs(envs) ==
    {compositor_detect(d, e).type :
        d \in {x \in Displays : detect_protocols(x) = det.proto},
        e \in envs}

\* C10 (as claimed): two runs that agree on the flags and on the desktop,
\* session and display-socket variables return the same identity.
C10_PureInThreeHints ==
    det.done => other_runs(environments_with_same_hints) = {det.info.type}

\* C10 (amended): two runs that agree on the flags, on the desktop, session
\* and display-socket variables and on whether SWAYSOCK is set return the
\* same identity, whatever else differs.
C10_PureInHintsAndSwaysock ==
    det.done =>
        other_runs({y \in environments_with_same_hints :
                       (y.SWAYSOCK = NULLSTR) <=> (det.environ.SWAYSOCK = NULLSTR)})
          = {det.info.type}

\* C10 witness: a run that detects Sway from SWAYSOCK alone, while
\* COMPOSITOR_VERSION is set and unwatched interfaces are advertised.
C10_Witness ==
    /\ det.done
    /\ det.info.type = "COMPOSITOR_TYPE_SWAY"
    /\ desktop_of(det.environ) = NULLSTR
    /\ session_of(det.environ) = NULLSTR
    /\ det.environ.SWAYSOCK = s_swaysock
    /\ det.environ.COMPOSITOR_VERSION = s_v1
    /\ "wl_compositor" \in det.display.globals

(***************************************************************************)
(* Properties of backend selection (checked under SpecSel)                 *)
(***************************************************************************)

\* The registry as the last compositor_backend_init call left it.
registry_now == [registry |-> backend_registry, count |-> backend_count]

is_registered(name) == registry_find(registry_now, name) # 0

entry_named(name) == backend_registry[registry_find(registry_now, name)]

\* The backend called name cannot be used: no entry, or its init gives NULL.
backend_fails(name) ==
    \/ ~is_registered(name)
    \/ ~sel.host.init_ok[entry_named(name).ops]

\* A compositor_backend_init call got as far as select_backend.
selection_ran == sel.done /\ sel.valid

\* The names whose init the pass invoked, in order.
init_names == [i \in 1..Len(sel.pass.inits) |-> sel.pass.inits[i].name]

C2_NoBackendAvailable ==
    selection_ran =>
      LET p == sel.pass IN
      /\ Cardinality({i \in 1..Len(p.inits) : p.inits[i].name = "fallback"}) <= 1
      /\ (backend_fails(p.preferred) /\ backend_fails("fallback"))
           => /\ backend = NULL_BACKEND
              /\ phase = "failed"
              /\ init_names =
                   (IF is_registered(p.preferred) THEN <<p.preferred>> ELSE <<>>)
                   \o (IF p.preferred # "fallback" /\ is_registered("fallback")
                         THEN <<"fallback">> ELSE <<>>)
              /\ \A i \in 1..Len(p.inits) : p.inits[i].data = NULL
              /\ p.preferred = "fallback" => p.second = "skipped"

\* C2 witness: the preferred name is "fallback", its init failed, and the
\* pass ended with no backend after that single attempt.
C2_Witness ==
    /\ selection_ran
    /\ sel.pass.preferred = "fallback"
    /\ is_registered("fallback")
    /\ backend_fails("fallback")
    /\ Len(sel.pass.inits) = 1
    /\ backend = NULL_BACKEND

\* C3 (as claimed): when the preferred name is not "fallback" and not in the
\* registry, compositor_backend_init returns the fallback backend whenever
\* "fallback" is registered and its init succeeds.
C3_FallbackWhenPreferredMissing ==
    (/\ selection_ran
     /\ sel.pass.preferred # "fallback"
     /\ ~is_registered(sel.pass.preferred)
     /\ ~backend_fails("fallback"))
    => /\ backend # NULL_BACKEND
       /\ backend.name = "fallback"

\* C3 (amended): ... whenever "fallback" is registered, its init succeeds
\* and the backend structure can be allocated; and compositor_backend_init
\* returns no backend only when allocation fails or both the preferred
\* backend and "fallback" fail.
C3_FallbackWhenPreferredMissingAndMemory ==
    selection_ran =>
      /\ (/\ sel.pass.preferred # "fallback"
          /\ ~is_registered(sel.pass.preferred)
          /\ ~backend_fails("fallback")
          /\ sel.host.alloc_ok)
         => /\ backend # NULL_BACKEND
            /\ backend.name = "fallback"
            /\ phase = "running"
      /\ backend = NULL_BACKEND
           => \/ ~sel.host.alloc_ok
              \/ backend_fails(sel.pass.preferred) /\ backend_fails("fallback")

\* C3 witness: the registry was full before the backends registered, so the
\* preferred wlr-layer-shell is missing, and a "fallback" registered earlier
\* was selected.
C3_Witness ==
    /\ selection_ran
    /\ backend_count = MAX_BACKENDS
    /\ sel.pass.preferred = "wlr-layer-shell"
    /\ ~is_registered("wlr-layer-shell")
    /\ backend # NULL_BACKEND
    /\ backend.name = "fallback"

\* C4: the preferred name follows the table: the wlroots family and KDE
\* Plasma prefer "wlr-layer-shell", GNOME Shell and Mutter "gnome-shell",
\* the unknown identity "wlr-layer-shell" with the layer flag and "fallback"
\* without it.
C4_PreferredNameTable ==
    selection_ran =>
      LET ty == sel.info.type IN
      /\ ty \in {"COMPOSITOR_TYPE_HYPRLAND", "COMPOSITOR_TYPE_SWAY",
                 "COMPOSITOR_TYPE_RIVER", "COMPOSITOR_TYPE_WAYFIRE",
                 "COMPOSITOR_TYPE_GENERIC", "COMPOSITOR_TYPE_KDE_PLASMA"}
           => sel.pass.preferred = "wlr-layer-shell"
      /\ ty \in {"COMPOSITOR_TYPE_GNOME_SHELL", "COMPOSITOR_TYPE_MUTTER"}
           => sel.pass.preferred = "gnome-shell"
      /\ ty = "COMPOSITOR_TYPE_UNKNOWN"
           => sel.pass.preferred = (IF sel.info.has_layer_shell
                                      THEN "wlr-layer-shell" ELSE "fallback")

\* C4 witness: a KDE Plasma pass without the layer flag preferred
\* wlr-layer-shell.
C4_Witness ==
    /\ selection_ran
    /\ sel.info.type = "COMPOSITOR_TYPE_KDE_PLASMA"
    /\ ~sel.info.has_layer_shell
    /\ sel.pass.preferred = "wlr-layer-shell"

\* C5 (as claimed): when the preferred backend is registered and its init
\* returns data, the pass returns an instance with the name, description,
\* priority and ops of that descriptor and that data, and invokes no other
\* init.
C5_PreferredSelected ==
    (/\ selection_ran
     /\ ~backend_fails(sel.pass.preferred))
    => LET e == entry_named(sel.pass.preferred) IN
       /\ backend = wrap_backend(e, ops_init(e.ops, sel.host))
       /\ init_names = <<sel.pass.preferred>>

\* C5 (amended): ... the pass invokes no other init, and, when the backend
\* structure can be allocated, returns an instance with the name,
\* description, priority and ops of that descriptor and that data.
C5_PreferredSelectedIfMemory ==
    (/\ selection_ran
     /\ ~backend_fails(sel.pass.preferred))
    => LET e == entry_named(sel.pass.preferred) IN
       /\ init_names = <<sel.pass.preferred>>
       /\ sel.pass.inits[1].ops = e.ops
       /\ sel.host.alloc_ok
            => /\ backend # NULL_BACKEND
               /\ backend.name = sel.pass.preferred
               /\ backend.description = e.description
               /\ backend.priority = e.priority
               /\ backend.ops = e.ops
               /\ backend.data = ops_init(e.ops, sel.host)

\* C5 witness: unknown identity, layer flag clear: "fallback" is selected
\* directly, with a single init call.
C5_Witness ==
    /\ selection_ran
    /\ sel.info.type = "COMPOSITOR_TYPE_UNKNOWN"
    /\ ~sel.info.has_layer_shell
    /\ backend # NULL_BACKEND
    /\ backend.name = "fallback"
    /\ init_names = <<"fallback">>

\* C6 (as claimed): whenever more than one registered backend could
\* initialise, the backend returned is one of highest priority among them.
C6_HighestPrioritySelected ==
    (selection_ran /\ sel.host.alloc_ok) =>
      LET able == {i \in 1..backend_count :
                      sel.host.init_ok[backend_registry[i].ops]}
      IN  Cardinality(able) > 1
            => /\ backend # NULL_BACKEND
               /\ \A i \in able : backend.priority >= backend_registry[i].priority

(***************************************************************************)
(* Properties of the registry (checked under SpecReg)                      *)
(***************************************************************************)

\* The registry that the last compositor_backend_register call left behind
\* is the current one: every step that changes the registry records its
\* last register call in reg.
registry_names(R) == {R.registry[i].name : i \in 1..R.count}

\* C11: whenever the registry already holds MAX_BACKENDS entries,
\* compositor_backend_register fails whatever its arguments are, and the
\* count and every entry stay as they were.
C11_RegistryFull ==
    (reg.done /\ reg.before.count >= MAX_BACKENDS)
    => /\ ~reg.ok
       /\ backend_count = reg.before.count
       /\ backend_registry = reg.before.registry

\* C11 witness: a well-formed registration under a fresh name met a full
\* registry and was rejected.
C11_Witness ==
    /\ reg.done
    /\ reg.before.count = MAX_BACKENDS
    /\ reg.name = PluginName(MAX_BACKENDS)
    /\ reg.ops = "plugin_ops"
    /\ ~reg.ok
    /\ backend_count = MAX_BACKENDS

\* C12: registering under a name that is already present fails and leaves
\* the table unchanged; the first registration stays authoritative: the
\* lookup of that name, and a backend instance selected under that name,
\* carry the first descriptor's ops, description and priority.
C12_DuplicateName ==
    (/\ reg.done
     /\ reg.name # NULL
     /\ reg.name \in registry_names(reg.before))
    => LET first == reg.before.registry[registry_find(reg.before, reg.name)] IN
       /\ ~reg.ok
       /\ registry_now = reg.before
       /\ entry_named(reg.name) = first
       /\ (backend # NULL_BACKEND /\ backend.name = reg.name)
            => /\ backend.ops = first.ops
               /\ backend.description = first.description
               /\ backend.priority = first.priority

\* C12 witness: a plugin registered "fallback" first; the fallback
\* backend's own registration was rejected and the selection pass returned
\* the plugin's descriptor.
C12_Witness ==
    /\ reg.done
    /\ reg.name = "fallback"
    /\ reg.ops = "fallback_ops"
    /\ ~reg.ok
    /\ backend # NULL_BACKEND
    /\ backend.name = "fallback"
    /\ backend.ops = "plugin_ops"

\* C13: whenever the registry is not full, compositor_backend_register
\* called with a null or empty name, or with a null operation table, fails
\* and leaves the count and the entries unchanged.
C13_InvalidArgument ==
    (/\ reg.done
     /\ reg.before.count < MAX_BACKENDS
     /\ (reg.name = NULL \/ reg.name = "" \/ reg.ops = NULL))
    => /\ ~reg.ok
       /\ registry_now = reg.before

\* C14: the registry is append-only under every sequence of register and
\* init calls: the count never decreases and never exceeds MAX_BACKENDS,
\* every entry keeps its name, description, priority and ops, names are
\* pairwise distinct, and a failed register call changes nothing.
C14_AppendOnly ==
    [][/\ backend_count' >= backend_count
       /\ backend_count' <= MAX_BACKENDS
       /\ Len(backend_registry') = backend_count'
       /\ \A i \in 1..backend_count : backend_registry'[i] = backend_registry[i]
       /\ \A i, j \in 1..backend_count' :
             backend_registry'[i].name = backend_registry'[j].name => i = j
       /\ (reg'.done /\ ~reg'.ok)
            => /\ backend_registry' = reg'.before.registry
               /\ backend_count' = reg'.before.count]_vars

\* C14 witness: plugins and a second compositor_backend_init have filled
\* the registry; the last registration failed.
C14_Witness ==
    /\ backend_count = MAX_BACKENDS
    /\ is_registered("wlr-layer-shell")
    /\ is_registered(PluginName(0))
    /\ backend_registry[MAX_BACKENDS].name = PluginName(MAX_BACKENDS - 1)
    /\ sel.done /\ sel.valid
    /\ reg.done /\ ~reg.ok

(***************************************************************************)
(* The life of the backend instance (checked under SpecLife)               *)
(***************************************************************************)

advertised(display, interface) ==
    display.has_registry /\ interface \in display.globals

\* C16: after the probe each flag is true exactly if its watched interface
\* was advertised, whatever else was advertised or removed; without a
\* registry the probe returns all flags false, and compositor_backend_init
\* goes on to classify and select.
C16_ProbeFlags ==
    /\ det.done
         => /\ det.proto.has_layer_shell
                 <=> advertised(det.display, "zwlr_layer_shell_v1")
            /\ det.proto.has_kde_shell
                 <=> advertised(det.display, "org_kde_plasma_shell")
            /\ det.proto.has_gtk_shell
                 <=> advertised(det.display, "gtk_shell1")
            /\ det.proto.has_viewporter
                 <=> advertised(det.display, "wp_viewporter")
            /\ ~det.display.has_registry => det.proto = protocol_state_zero
    /\ (/\ sel.done
        /\ sel.state # NULL_STATE
        /\ sel.state.display # NULL_DISPLAY)
         => /\ sel.valid
            /\ det.done
            /\ det.display = sel.state.display
            /\ sel.info = det.info
            /\ sel.info.has_layer_shell = det.proto.has_layer_shell
            /\ sel.info.has_kde_shell = det.proto.has_kde_shell
            /\ sel.info.has_gtk_shell = det.proto.has_gtk_shell
            /\ sel.info.type = detect_compositor_type(det.proto, det.environ)
            /\ sel.pass.preferred = preferred_backend_name(sel.info)
            /\ backend = sel.pass.backend

\* C16 witness, the probe: the layer-shell global was advertised and
\* removed again, next to an interface that is not watched.
C16_Witness ==
    /\ det.done
    /\ "zwlr_layer_shell_v1" \in det.display.removed
    /\ "wl_compositor" \in det.display.globals
    /\ det.proto.has_layer_shell
    /\ ~det.proto.has_kde_shell

\* The degraded case of C16 is reached as well: no registry, and the pass
\* selected the fallback backend.
C16_NoRegistrySelects ==
    /\ sel.done
    /\ sel.state # NULL_STATE
    /\ sel.state.display = NO_REGISTRY
    /\ backend # NULL_BACKEND
    /\ backend.name = "fallback"

(***************************************************************************)
(* Properties of the X11 backend's surfaces (checked under SpecX11)        *)
(***************************************************************************)

\* C17: create_surface returns null or a fully initialized surface.  A
\* call that returns null frees what it allocated and leaves the backend
\* data, the surfaces and the server's windows as they were; a call that
\* returns a surface has created and mapped its window, set the surface's
\* size to the window's, attached the surface data and linked the output.
C17_CreateSurfaceAllOrNothing ==
    [][x11op'.op = "create_surface" =>
         IF x11op'.surface = 0
           THEN /\ x11op'.frees = x11op'.allocs
                /\ UNCHANGED <<x11, surfaces, windows>>
           ELSE LET object       == surfaces'[x11op'.surface]
                    surface_data == object.backend_data
                IN  /\ x11op'.frees = {}
                    /\ Len(surfaces') = Len(surfaces) + 1
                    /\ Len(windows') = Len(windows) + 1
                    /\ ~object.freed /\ ~surface_data.freed
                    /\ surface_data.window # XCB_WINDOW_NONE
                    /\ surface_data.xlib_window = surface_data.window
                    /\ windows'[surface_data.window].exists
                    /\ windows'[surface_data.window].mapped
                    /\ surface_data.mapped
                    /\ object.width = windows'[surface_data.window].width
                    /\ object.height = windows'[surface_data.window].height
                    /\ object.width > 0 /\ object.height > 0
                    /\ x11'.outputs[surface_data.output].surface
                         = x11op'.surface]_vars

\* C17 witness: with a surface already on the output, a second
\* create_surface failed at the window request and gave back both
\* allocations.
C17_Witness ==
    /\ x11op.op = "create_surface"
    /\ x11op.surface = 0
    /\ x11op.allocs = {"surface", "surface_data"}
    /\ x11op.frees = {"surface", "surface_data"}
    /\ Len(surfaces) = 1
    /\ x11.outputs[1].surface = 1
    /\ windows[1].mapped

\* C18: configure_surface is idempotent: of two calls in a row with the
\* same surface and configuration both succeed, and the second issues no
\* resize request and changes neither the recorded size nor the window.
C18_ConfigureIdempotent ==
    [][(/\ x11op'.op = "configure_surface"
        /\ x11op'.repeated
        /\ x11op'.surface # 0
        /\ x11op'.config # NULL_CONFIG)
       => /\ x11op'.first_ok
          /\ x11op'.ok
          /\ ~x11op'.resized
          /\ surfaces'[x11op'.surface].width = surfaces[x11op'.surface].width
          /\ surfaces'[x11op'.surface].height = surfaces[x11op'.surface].height
          /\ windows' = windows]_vars

\* C18 witness: the first of two identical calls resized the window, the
\* second found nothing to do.
C18_Witness ==
    /\ x11op.op = "configure_surface"
    /\ x11op.repeated
    /\ x11op.first_resized
    /\ x11op.ok
    /\ ~x11op.resized
    /\ x11op.surface # 0
    /\ surfaces[x11op.surface].width = x11op.config.width
    /\ windows[surfaces[x11op.surface].backend_data.window].width
         = x11op.config.width

\* C19: under any sequence of create_surface and destroy_surface calls no
\* window is destroyed twice and no surface or surface data is freed
\* twice.
C19_NoDoubleDestroy ==
    /\ \A w \in 1..Len(windows) : windows[w].destroys <= 1
    /\ \A i \in 1..Len(surfaces) :
          /\ surfaces[i].frees <= 1
          /\ surfaces[i].backend_data.frees <= 1

\* The part of C19 about the null surface: destroy_surface(NULL) changes
\* nothing.
C19_NullDestroyIsNoOp ==
    [][(x11op'.op = "destroy_surface" /\ x11op'.surface = 0)
       => UNCHANGED <<x11, surfaces, windows>>]_vars

\* C20: a surface has a rendering window only after commit_surface has
\* been performed on it.
C20_EglWindowAfterCommit ==
    \A i \in 1..Len(surfaces) :
        (~surfaces[i].freed /\ surfaces[i].egl_window # 0)
        => surfaces[i].commits > 0

\* C21: destroy_surface on a surface whose rendering window is attached
\* releases the rendering window before it destroys the native X window:
\* when the destroy request is sent, surface->egl_window no longer refers
\* to the window being destroyed.
C21_EglWindowReleasedFirst ==
    (/\ x11op.op = "destroy_surface"
     /\ x11op.destroyed_window # XCB_WINDOW_NONE)
    => x11op.egl_window_at_destroy # x11op.destroyed_window

\* The synthetic output of x11_detect_outputs: the whole primary screen.
synthetic_output(screen) ==
    [x |-> 0, y |-> 0, width |-> screen.width, height |-> screen.height,
     surface |-> 0]

\* C22: output detection is never fatal.  When the connection and the
\* allocations work, x11_backend_init succeeds whatever RandR answers, and
\* without RandR, with a failed screen resources query or with no usable
\* output the backend has exactly the one synthetic output.
C22_DetectionNeverFatal ==
    (/\ x11op.op = "init"
     /\ x11op.state # NULL_STATE
     /\ x11op.xhost.connect_ok
     /\ x11op.xhost.alloc_ok)
    => /\ x11op.ok
       /\ (\/ ~x11op.xhost.has_randr
           \/ ~x11op.xhost.randr.reply_ok
           \/ x11_detect_randr_outputs(<<>>, x11op.xhost.randr.outputs) = <<>>)
          => x11.outputs = <<synthetic_output(x11op.xhost.screen)>>

\* The part of C22 about a server without RandR: the backend has exactly
\* the synthetic output.
C22_NoRandrSyntheticOutput ==
    (/\ x11op.op = "init"
     /\ x11op.state # NULL_STATE
     /\ x11op.xhost.connect_ok
     /\ x11op.xhost.alloc_ok
     /\ ~x11op.xhost.has_randr)
    => /\ x11op.ok
       /\ x11.outputs = <<synthetic_output(x11op.xhost.screen)>>

\* The requests a window got between its creation and its mapping; the
\* empty set when it was not created first or never mapped.
requests_before_map(requests) ==
    IF /\ Len(requests) >= 2
       /\ requests[1] = "create_window"
       /\ requests[Len(requests)] = "map_window"
      THEN {requests[k] : k \in 2..(Len(requests) - 1)}
      ELSE {}

\* C24: a window is mapped only after it was created and got its desktop
\* window type, its below/sticky state and its name (and, with the input
\* shaping extension, an empty input region); a create_surface that
\* returns null maps nothing; and a mapped surface stays mapped under
\* configure_surface and commit_surface.
C24_SurfaceStateMachine ==
    [][/\ \A w \in 1..Len(windows') :
            windows'[w].mapped
            => LET set == requests_before_map(windows'[w].requests)
               IN  /\ "net_wm_window_type_desktop" \in set
                   /\ "net_wm_state_below_sticky" \in set
                   /\ "net_wm_name" \in set
                   /\ "map_window" \notin set
                   /\ x11'.has_xfixes => "input_shape_region_empty" \in set
       /\ (x11op'.op = "create_surface" /\ x11op'.surface = 0)
            => windows' = windows
       /\ (/\ x11op'.op \in {"configure_surface", "commit_surface"}
           /\ x11op'.surface # 0)
            => LET before == surfaces[x11op'.surface]
                   after  == surfaces'[x11op'.surface]
                   window == before.backend_data.window
               IN  /\ after.backend_data.window = window
                   /\ after.backend_data.mapped = before.backend_data.mapped
                   /\ windows'[window].mapped = windows[window].mapped
                   /\ windows'[window].exists = windows[window].exists
                   /\ before.backend_data.mapped /\ windows[window].mapped]_vars

\* C24 witness: a mapped surface was resized by configure_surface and is
\* still mapped, on a server with the input shaping extension.
C24_Witness ==
    /\ x11op.op = "configure_surface"
    /\ x11op.surface # 0
    /\ x11op.resized
    /\ x11.has_xfixes
    /\ surfaces[x11op.surface].backend_data.mapped
    /\ windows[surfaces[x11op.surface].backend_data.window].mapped
    /\ windows[surfaces[x11op.surface].backend_data.window].requests
         = <<"create_window", "net_wm_window_type_desktop",
             "net_wm_state_below_sticky", "net_wm_name",
             "input_shape_region_empty", "map_window">>

\* The size last requested for the native window of surface i.
requested_size(S, Wn, i) ==
    [width  |-> Wn[S[i].backend_data.window].requested_width,
     height |-> Wn[S[i].backend_data.window].requested_height]

recorded_size(S, i) == [width |-> S[i].width, height |-> S[i].height]

\* C25: a width or height of 0 in a configuration means the output's
\* dimension: no live surface has a recorded or a requested width or
\* height of 0.
C25_ZeroMeansAuto ==
    \A i \in LiveSurfaces :
        /\ recorded_size(surfaces, i).width # 0
        /\ recorded_size(surfaces, i).height # 0
        /\ requested_size(surfaces, windows, i).width # 0
        /\ requested_size(surfaces, windows, i).height # 0

\* The part of C25 about create_surface: the surface it returns has the
\* output's dimension where the configuration has 0.
C25_CreateResolvesAuto ==
    (x11op.op = "create_surface" /\ x11op.surface # 0)
    => LET object == surfaces[x11op.surface]
           output == x11.outputs[object.backend_data.output]
       IN  /\ object.config.width = 0 => object.width = output.width
           /\ object.config.height = 0 => object.height = output.height
           /\ object.width # 0 /\ object.height # 0

bound_surfaces(k) ==
    {i \in LiveSurfaces : surfaces[i].backend_data.output = k}

\* C28: an output's surface back-reference is null exactly when no live
\* surface is bound to the output, and otherwise refers to a live surface
\* bound to it.
C28_OutputBackReference ==
    x11 # NULL_DATA
    => \A k \in 1..Len(x11.outputs) :
          /\ x11.outputs[k].surface = 0 <=> bound_surfaces(k) = {}
          /\ x11.outputs[k].surface # 0
               => x11.outputs[k].surface \in bound_surfaces(k)

\* The part of C28 about one surface at a time: while at most one surface
\* was ever live at once and none was destroyed twice, the back-reference
\* is that surface or null.
C28_SingleSurfaceBackReference ==
    (/\ x11 # NULL_DATA
     /\ Cardinality(LiveSurfaces) <= 1
     /\ \A i \in 1..Len(surfaces) : surfaces[i].frees <= 1
     /\ Len(surfaces) <= 1)
    => \A k \in 1..Len(x11.outputs) :
          /\ x11.outputs[k].surface = 0 <=> bound_surfaces(k) = {}
          /\ x11.outputs[k].surface # 0
               => x11.outputs[k].surface \in bound_surfaces(k)

(***************************************************************************)
(* Properties of the capability bitmask (checked under SpecLife)           *)
(***************************************************************************)

\* C26: the capability bitmask is computed once, at selection, and
\* cached.  A selection pass asks get_capabilities exactly once when it
\* returns a backend, after that backend's init returned data and on that
\* data, and not at all when it returns none; the backend holds the answer.
\* compositor_backend_get_capabilities returns the value held without
\* asking the backend, and COMPOSITOR_CAP_NONE for a null backend.
C26_CapabilitiesCached ==
    /\ (sel.done /\ sel.valid)
       => IF sel.pass.backend = NULL_BACKEND
            THEN sel.pass.caps_queries = <<>>
            ELSE LET b    == sel.pass.backend
                     call == [name |-> b.name, ops |-> b.ops, data |-> b.data]
                 IN  /\ sel.pass.caps_queries = <<call>>
                     /\ b.data # NULL
                     /\ \E k \in 1..Len(sel.pass.inits) :
                           sel.pass.inits[k] = call
                     /\ \A k \in 1..Len(sel.pass.cleanups) :
                           sel.pass.cleanups[k] # call
                     /\ b.capabilities = ops_get_capabilities(b.ops, b.data)
    /\ capq.done
       => /\ capq.queries = <<>>
          /\ capq.returned = IF capq.backend = NULL_BACKEND
                               THEN COMPOSITOR_CAP_NONE
                               ELSE capq.backend.capabilities

\* C26 witness: the selection returned the wlr-layer-shell backend after
\* one capability query, and a later compositor_backend_get_capabilities
\* call returned its cached bitmask.
C26_Witness ==
    /\ sel.done /\ sel.valid
    /\ sel.pass.backend # NULL_BACKEND
    /\ Len(sel.pass.caps_queries) = 1
    /\ capq.done
    /\ capq.backend = sel.pass.backend
    /\ capq.backend.name = "wlr-layer-shell"
    /\ capq.returned = 121
    /\ capq.queries = <<>>

(***************************************************************************)
(* Properties of the renderer's frame functions (checked under SpecFrame)  *)
(***************************************************************************)

\* C23: the three-phase frame protocol.  renderer_render_frame and
\* renderer_end_frame return true only while a frame is open, that is
\* after a successful renderer_begin_frame and before the next successful
\* renderer_end_frame; with no frame open both return false and leave the
\* frame state alone; a failed renderer_begin_frame opens no frame; and a
\* successful renderer_end_frame leaves no frame open.
C23_FrameProtocol ==
    [][/\ (frameop'.op \in {"render_frame", "end_frame"} /\ frameop'.ok)
          => frameop.in_frame
       /\ (frameop'.op \in {"render_frame", "end_frame"} /\ ~frameop.in_frame)
          => /\ ~frameop'.ok
             /\ UNCHANGED <<current_surface, current_width, current_height>>
             /\ ~frameop'.in_frame
       /\ (frameop'.op = "begin_frame" /\ ~frameop'.ok)
          => /\ UNCHANGED <<current_surface, current_width, current_height>>
             /\ frameop'.in_frame = frameop.in_frame
       /\ (frameop'.op = "begin_frame"
           /\ (\/ frameop'.ctx = NULL
               \/ frameop'.egl_surface = EGL_NO_SURFACE
               \/ ~frameop'.make_current_ok))
          => ~frameop'.ok
       /\ (frameop'.op = "end_frame" /\ frameop'.ok)
          => /\ current_surface' = EGL_NO_SURFACE
             /\ current_width' = 0 /\ current_height' = 0
       /\ frameop'.in_frame <=> current_surface' # EGL_NO_SURFACE]_vars

\* C23 witness: a frame on the first surface was begun and ended, and a
\* further renderer_end_frame was refused.
C23_Witness ==
    /\ frameop.op = "end_frame"
    /\ frameop.ctx = CTX
    /\ ~frameop.ok
    /\ ~frameop.in_frame
    /\ gl.draw_surface = "egl_surface_1"
    /\ current_surface = EGL_NO_SURFACE

(***************************************************************************)
(* Properties of the renderer's textures (checked under SpecTexture)       *)
(***************************************************************************)

\* The sum of memory_size over the textures of T that are live.
RECURSIVE live_memory(_)
live_memory(T) ==
    IF T = <<>> THEN 0
    ELSE (IF Head(T).freed THEN 0 ELSE Head(T).memory_size)
         + live_memory(Tail(T))

\* C29: gpu_memory_estimate is the sum of memory_size over the live
\* textures of the context, 0 when there is none; a creation that returns
\* null leaves the estimate as it was; the estimate is never negative.
C29_MemoryEstimate ==
    /\ context.gpu_memory_estimate = live_memory(textures)
    /\ LiveTextures = {} => context.gpu_memory_estimate = 0
    /\ context.gpu_memory_estimate >= 0
    /\ (texop.op \in {"from_memory", "procedural"} /\ texop.texture = 0)
       => context.gpu_memory_estimate = texop.estimate_before

\* C29 witness: of three textures the middle one was destroyed, and the
\* estimate is what the other two take.
C29_Witness ==
    /\ texop.op = "destroy"
    /\ texop.texture = 2
    /\ Len(textures) = 3
    /\ LiveTextures = {1, 3}
    /\ textures[2].memory_size > 0
    /\ textures[1].memory_size # textures[3].memory_size
    /\ context.gpu_memory_estimate
         = textures[1].memory_size + textures[3].memory_size
    /\ texop.estimate_before
         = context.gpu_memory_estimate + textures[2].memory_size

(***************************************************************************)
(* Properties of the transition registry (checked under SpecTransition)    *)
(***************************************************************************)

registered_types ==
    {TRANSITION_FADE, TRANSITION_SLIDE_LEFT, TRANSITION_SLIDE_RIGHT,
     TRANSITION_GLITCH, TRANSITION_PIXELATE}

registered_names == {"fade", "slide_left", "slide_right", "glitch", "pixelate"}

\* C30: transition names round-trip.  Parsing the name that
\* transition_get_name returned for a registered type gives that type;
\* parsing a null string or a string that is no registered name gives
\* TRANSITION_NONE; the name of a type that is not registered is
\* "unknown"; and transition_render returns false without calling a render
\* function for a type that is not registered.
C30_NameRoundTrip ==
    /\ (trop.op = "parse" /\ trop.name_of \in registered_types)
       => trop.type = trop.name_of
    /\ (trop.op = "parse" /\ trop.str \notin registered_names)
       => trop.type = TRANSITION_NONE
    /\ (trop.op = "get_name" /\ trop.type \in registered_types)
       => trop.name \in registered_names
    /\ (trop.op = "get_name" /\ trop.type \notin registered_types)
       => trop.name = "unknown"
    /\ (trop.op = "render" /\ trop.type \notin registered_types)
       => /\ ~trop.ok
          /\ trop.dispatched = "none"

\* C30 witness: the name of TRANSITION_SLIDE_RIGHT was parsed back.
C30_Witness ==
    /\ trop.op = "parse"
    /\ trop.name_of = TRANSITION_SLIDE_RIGHT
    /\ trop.str = "slide_right"
    /\ trop.type = TRANSITION_SLIDE_RIGHT

=============================================================================
